---- MODULE Spec2Model ----
EXTENDS Integers, Sequences, FiniteSets, TLC

(***************************************************************************)
(* Model of the streaming signal engine: TimeBasedStreamingMA (algo.py),   *)
(* Algo.process_row (algo.py) and Decider.decide (decider.py).             *)
(*                                                                         *)
(* Number representation.  A Python float is modelled as an exact rational *)
(* <<n, d>> with d > 0 in lowest terms; np.inf and -np.inf are <<1, 0>>    *)
(* and <<-1, 0>>.  Python None is the empty tuple <<>>.  An optional int   *)
(* (a signal) is <<>> or <<i>>.  Timestamps and durations are integer      *)
(* seconds.  Inputs are restricted to those for which the one irrational   *)
(* operation of the code, (1 - alpha) ** time_factor, has a rational value.*)
(***************************************************************************)

None == <<>>

\* F(x) with the argument x evaluated once, before F is applied
Let1(x, F(_)) == CHOOSE r \in { F(v) : v \in {x} } : TRUE

IsNone(x) == x = <<>>

Abs(i) == IF i < 0 THEN -i ELSE i

RECURSIVE GCD(_, _)
GCD(a, b) == IF b = 0 THEN Abs(a) ELSE GCD(b, a % b)

RECURSIVE IPow(_, _)
IPow(b, e) == IF e = 0 THEN 1 ELSE b * IPow(b, e - 1)

\* the rational n/d in lowest terms, d > 0
RatOf(p) ==
    LET g == GCD(Abs(p[1]), Abs(p[2]))
        s == IF p[2] < 0 THEN -1 ELSE 1
    IN  <<(s * p[1]) \div g, (s * p[2]) \div g>>

Rat(n, d) == Let1(<<n, d>>, LAMBDA p : RatOf(p))

R(i) == <<i, 1>>

Inf == <<1, 0>>

NegInf == <<-1, 0>>

IsFinite(a) == a[2] # 0

\* the denominators' least common multiple
LCD(p) == (p[1][2] \div GCD(p[1][2], p[2][2])) * p[2][2]

RAdd(a, b) ==
    Let1(<<a, b>>, LAMBDA p :
    Let1(LCD(p), LAMBDA l :
         Rat(p[1][1] * (l \div p[1][2]) + p[2][1] * (l \div p[2][2]), l)))

RNeg(a) == Let1(a, LAMBDA v : <<-v[1], v[2]>>)

RSub(a, b) == RAdd(a, RNeg(b))

\* product, cancelling across the fraction bars before multiplying
RMul(a, b) ==
    Let1(<<a, b>>, LAMBDA p :
    Let1(<<GCD(Abs(p[1][1]), p[2][2]), GCD(Abs(p[2][1]), p[1][2])>>, LAMBDA g :
         IF p[1][1] = 0 \/ p[2][1] = 0 THEN <<0, 1>>
         ELSE Rat((p[1][1] \div g[1]) * (p[2][1] \div g[2]),
                  (p[1][2] \div g[2]) * (p[2][2] \div g[1]))))

RInv(a) == Let1(a, LAMBDA v : Rat(v[2], v[1]))

RDiv(a, b) == RMul(a, RInv(b))

RAbs(a) == Let1(a, LAMBDA v : <<Abs(v[1]), v[2]>>)

\* a < b, also when a or b is +-infinity
RLt(a, b) ==
    Let1(<<a, b>>, LAMBDA p :
         IF p[1][2] = 0 \/ p[2][2] = 0 THEN p[1][1] * p[2][2] < p[2][1] * p[1][2]
         ELSE Let1(GCD(p[1][2], p[2][2]), LAMBDA g :
                   p[1][1] * (p[2][2] \div g) < p[2][1] * (p[1][2] \div g)))

RLe(a, b) == Let1(<<a, b>>, LAMBDA p : p[1] = p[2] \/ RLt(p[1], p[2]))

RGt(a, b) == RLt(b, a)

RGe(a, b) == RLe(b, a)

RMin(a, b) == Let1(<<a, b>>, LAMBDA p : IF RLt(p[2], p[1]) THEN p[2] ELSE p[1])

RMax(a, b) == Let1(<<a, b>>, LAMBDA p : IF RLt(p[1], p[2]) THEN p[2] ELSE p[1])

\* nearest integer to a, ties to the even integer (Python 3 round)
RoundHalfEven(a) ==
    Let1(a, LAMBDA v :
    Let1(<<v[1] \div v[2], v[1] % v[2]>>, LAMBDA qr :
         IF 2 * qr[2] < v[2] THEN qr[1]
         ELSE IF 2 * qr[2] > v[2] THEN qr[1] + 1
         ELSE IF qr[1] % 2 = 0 THEN qr[1] ELSE qr[1] + 1))

\* Python round(x, ndigits) for ndigits >= 0
round(x, ndigits) ==
    Rat(RoundHalfEven(RMul(x, R(IPow(10, ndigits)))), IPow(10, ndigits))

\* Python truthiness of an optional number: None and 0 are false
Truthy(x) == Let1(x, LAMBDA v : v # None /\ v[1] # 0)

\* the exact b-th root of the natural number x (defined when x is a b-th power)
IRoot(x, b) == CHOOSE r \in 0..x : IPow(r, b) = x

HasIRoot(x, b) == \E r \in 0..x : IPow(r, b) = x

\* q ** e for rationals 0 < q < 1 and e > 0, where the value is rational
RPow(q, e) ==
    Let1(<<q, e>>, LAMBDA p :
         Rat(IPow(IRoot(p[1][1], p[2][2]), p[2][1]),
             IPow(IRoot(p[1][2], p[2][2]), p[2][1])))

HasRPow(q, e) ==
    Let1(<<q, e>>, LAMBDA p : HasIRoot(p[1][1], p[2][2]) /\ HasIRoot(p[1][2], p[2][2]))

Last(s) == s[Len(s)]

RECURSIVE SumPrices(_)
SumPrices(pts) ==
    Let1(pts, LAMBDA s :
         IF s = <<>> THEN <<0, 1>> ELSE RAdd(s[1][2], SumPrices(Tail(s))))

(***************************************************************************)
(* TimeBasedStreamingMA                                                    *)
(***************************************************************************)

MATypes == {"SMA", "EMA", "DEMA", "TEMA"}

\* __init__ with a timedelta window of time_window seconds and alpha=None
NewMA(time_window, ma_type) ==
    Let1(RMax(R(1), Rat(time_window, 60)), LAMBDA equivalent_periods :
        [ ma_type        |-> ma_type,
          time_window    |-> time_window,
          alpha          |-> RDiv(R(2), RAdd(equivalent_periods, R(1))),
          data_points    |-> <<>>,
          timestamps     |-> <<>>,
          ema1           |-> None,
          ema2           |-> None,
          ema3           |-> None,
          initialized    |-> FALSE,
          last_timestamp |-> None,
          data_count     |-> 0 ])

\* ma_type.upper() on the spellings of the type
Upper(s) ==
    CASE s = "sma" -> "SMA" [] s = "ema" -> "EMA" [] s = "dema" -> "DEMA"
      [] s = "tema" -> "TEMA" [] OTHER -> s

\* a window argument: a timedelta of the given seconds (kind "timedelta"), a
\* string of a count and a unit that pandas parses ("str"), a string it cannot
\* parse ("unparseable") or a value of another type ("number")
WindowArg(kind, seconds, count, unit) ==
    [kind |-> kind, seconds |-> seconds, count |-> count, unit |-> unit]

\* time_window.replace('H', 'h') on the unit of a window string
replace_H(unit) == IF unit = "H" THEN "h" ELSE unit

\* a parse that takes the count for seconds whatever the unit
Timedelta_of_count(count, unit) ==
    count

\* pd.Timedelta(time_window_str) in seconds, for the units s, min and h
Timedelta_of_str(count, unit) ==
    CASE unit = "s"   -> count
      [] unit = "min" -> count * 60
      [] unit = "h"   -> count * 3600

\* self.time_window in seconds: the string parsed, the timedelta as it is
Timedelta(time_window) ==
    IF time_window.kind = "str"
    THEN Timedelta_of_str(time_window.count, replace_H(time_window.unit))
    ELSE time_window.seconds

\* __init__(time_window, ma_type, alpha) with its validation: the exception raised,
\* if any, and the calculator constructed.
TimeBasedStreamingMA(time_window, ma_type, alpha) ==
    IF Upper(ma_type) \notin MATypes
    THEN [raised |-> "ValueError", ma |-> None]
    ELSE IF time_window.kind \notin {"str", "timedelta"}
    THEN [raised |-> "ValueError", ma |-> None]
    ELSE IF alpha # None /\ ~(RLt(R(0), alpha) /\ RLt(alpha, R(1)))
    THEN [raised |-> "ValueError", ma |-> None]
    ELSE [raised |-> "none",
          ma |-> [NewMA(Timedelta(time_window), Upper(ma_type))
                    EXCEPT !.alpha = IF alpha = None THEN @ ELSE alpha]]

\* a popleft loop that also drops the point exactly at the cutoff
RECURSIVE DropThroughCutoff(_, _)
DropThroughCutoff(pts, cutoff_time) ==
    IF pts # <<>> /\ pts[1][1] <= cutoff_time
    THEN DropThroughCutoff(Tail(pts), cutoff_time)
    ELSE pts

\* the deque after the popleft loop: the longest prefix older than the cutoff goes
RECURSIVE DropWhileOlder(_, _)
DropWhileOlder(pts, cutoff_time) ==
    IF pts # <<>> /\ pts[1][1] < cutoff_time
    THEN DropWhileOlder(Tail(pts), cutoff_time)
    ELSE pts

RECURSIVE DropN(_, _)
DropN(s, n) == IF n = 0 \/ s = <<>> THEN s ELSE DropN(Tail(s), n - 1)

clean_old_data(m, current_timestamp) ==
    Let1(DropWhileOlder(m.data_points, current_timestamp - m.time_window), LAMBDA kept :
        [m EXCEPT !.data_points = kept,
                  !.timestamps = DropN(m.timestamps, Len(m.data_points) - Len(kept))])

\* whether (1 - alpha) ** (time_elapsed / 60) is rational, or is never computed
WeightRepresentable(m, current_timestamp) ==
    IF m.last_timestamp = None THEN TRUE
    ELSE IF current_timestamp - m.last_timestamp[1] <= 0 THEN TRUE
    ELSE IF RLe(m.alpha, R(0)) \/ RGe(m.alpha, R(1)) THEN TRUE
    ELSE HasRPow(RSub(R(1), m.alpha), Rat(current_timestamp - m.last_timestamp[1], 60))

\* a weight that ignores the time elapsed
calculate_time_weight_fixed(m, current_timestamp, last_timestamp) ==
    m.alpha

calculate_time_weight(m, current_timestamp, last_timestamp) ==
    IF last_timestamp = None THEN m.alpha
    ELSE Let1(current_timestamp - last_timestamp[1], LAMBDA time_elapsed :
         IF time_elapsed <= 0 THEN m.alpha
         ELSE IF RLe(m.alpha, R(0)) \/ RGe(m.alpha, R(1)) THEN m.alpha
         ELSE Let1(RSub(R(1), RPow(RSub(R(1), m.alpha), Rat(time_elapsed, 60))),
                   LAMBDA adjusted_alpha : RMin(R(1), RMax(R(0), adjusted_alpha))))

\* a step that adds the weighted price to the whole of the old value:
\* w * x + y
BlendOntoOld(w, x, y) ==
    RAdd(RMul(w, x), y)

\* w * x + (1 - w) * y
Blend(w, x, y) ==
    Let1(<<w, x, y>>, LAMBDA p :
         RAdd(RMul(p[1], p[2]), RMul(RSub(R(1), p[1]), p[3])))

calculate_time_sma(m, timestamp, price) ==
    [ ma  |-> m,
      ret |-> IF Len(m.data_points) = 0 THEN price
              ELSE RDiv(SumPrices(m.data_points), R(Len(m.data_points))) ]

\* an EMA whose first tick is smoothed against an empty stage
calculate_time_ema_cold(m, timestamp, price) ==
    IF ~m.initialized
    THEN Let1(RMul(m.alpha, price), LAMBDA e1 :
              [ ma  |-> [m EXCEPT !.ema1 = e1, !.initialized = TRUE,
                                  !.last_timestamp = <<timestamp>>],
                ret |-> e1 ])
    ELSE Let1(calculate_time_weight(m, timestamp, m.last_timestamp), LAMBDA time_weight :
         Let1(Blend(time_weight, price, m.ema1), LAMBDA e1 :
              [ ma  |-> [m EXCEPT !.ema1 = e1, !.last_timestamp = <<timestamp>>],
                ret |-> e1 ]))

calculate_time_ema(m, timestamp, price) ==
    IF ~m.initialized
    THEN [ ma  |-> [m EXCEPT !.ema1 = price, !.initialized = TRUE,
                             !.last_timestamp = <<timestamp>>],
           ret |-> price ]
    ELSE Let1(calculate_time_weight(m, timestamp, m.last_timestamp), LAMBDA time_weight :
         Let1(Blend(time_weight, price, m.ema1), LAMBDA e1 :
              [ ma  |-> [m EXCEPT !.ema1 = e1, !.last_timestamp = <<timestamp>>],
                ret |-> e1 ]))

\* DEMA = 2 * EMA1 - EMA2
dema_of(m) == RSub(RMul(R(2), m.ema1), m.ema2)

calculate_time_dema(m, timestamp, price) ==
    IF ~m.initialized
    THEN Let1([m EXCEPT !.ema1 = price, !.ema2 = price, !.initialized = TRUE,
                        !.last_timestamp = <<timestamp>>],
              LAMBDA m1 : [ma |-> m1, ret |-> dema_of(m1)])
    ELSE Let1(calculate_time_weight(m, timestamp, m.last_timestamp), LAMBDA time_weight :
         Let1(Blend(time_weight, price, m.ema1), LAMBDA e1 :
         Let1(Blend(time_weight, e1, m.ema2), LAMBDA e2 :
         Let1([m EXCEPT !.ema1 = e1, !.ema2 = e2, !.last_timestamp = <<timestamp>>],
              LAMBDA m1 : [ma |-> m1, ret |-> dema_of(m1)]))))

\* TEMA = 3 * EMA1 - 3 * EMA2 + EMA3
tema_of(m) == RAdd(RSub(RMul(R(3), m.ema1), RMul(R(3), m.ema2)), m.ema3)

\* a TEMA whose three stages are all updated from the values the call found
calculate_time_tema_parallel(m, timestamp, price) ==
    IF ~m.initialized
    THEN Let1([m EXCEPT !.ema1 = price, !.ema2 = price, !.ema3 = price,
                        !.initialized = TRUE, !.last_timestamp = <<timestamp>>],
              LAMBDA m1 : [ma |-> m1, ret |-> tema_of(m1)])
    ELSE Let1(calculate_time_weight(m, timestamp, m.last_timestamp), LAMBDA time_weight :
         Let1([m EXCEPT !.ema1 = Blend(time_weight, price, m.ema1),
                        !.ema2 = Blend(time_weight, m.ema1, m.ema2),
                        !.ema3 = Blend(time_weight, m.ema2, m.ema3),
                        !.last_timestamp = <<timestamp>>],
              LAMBDA m1 : [ma |-> m1, ret |-> tema_of(m1)]))

calculate_time_tema(m, timestamp, price) ==
    IF ~m.initialized
    THEN Let1([m EXCEPT !.ema1 = price, !.ema2 = price, !.ema3 = price,
                        !.initialized = TRUE, !.last_timestamp = <<timestamp>>],
              LAMBDA m1 : [ma |-> m1, ret |-> tema_of(m1)])
    ELSE Let1(calculate_time_weight(m, timestamp, m.last_timestamp), LAMBDA time_weight :
         Let1(Blend(time_weight, price, m.ema1), LAMBDA e1 :
         Let1(Blend(time_weight, e1, m.ema2), LAMBDA e2 :
         Let1(Blend(time_weight, e2, m.ema3), LAMBDA e3 :
         Let1([m EXCEPT !.ema1 = e1, !.ema2 = e2, !.ema3 = e3,
                        !.last_timestamp = <<timestamp>>],
              LAMBDA m1 : [ma |-> m1, ret |-> tema_of(m1)])))))

\* the calculator after data_count += 1, _clean_old_data and the two appends
add_point(m, timestamp, price) ==
    Let1(clean_old_data([m EXCEPT !.data_count = @ + 1], timestamp), LAMBDA m1 :
         [m1 EXCEPT !.data_points = Append(@, <<timestamp, price>>),
                    !.timestamps = Append(@, timestamp)])

\* add_data_point(timestamp, price): the updated calculator and the returned average
add_data_point(m, timestamp, price) ==
    Let1(add_point(m, timestamp, price), LAMBDA m2 :
         IF m2.ma_type = "SMA" THEN calculate_time_sma(m2, timestamp, price)
         ELSE IF m2.ma_type = "EMA" THEN calculate_time_ema(m2, timestamp, price)
         ELSE IF m2.ma_type = "DEMA" THEN calculate_time_dema(m2, timestamp, price)
         ELSE calculate_time_tema(m2, timestamp, price))

\* add_data_point with a timestamp that is no datetime.  An unparseable string is
\* rejected by pd.to_datetime before anything is touched; an absent one (None) is
\* no string, so data_count is incremented and _clean_old_data then raises on
\* current_timestamp - self.time_window.
add_data_point_raising(m, fault) ==
    IF fault = "unparseable"
    THEN [ma |-> m, raised |-> "ValueError"]
    ELSE [ma |-> [m EXCEPT !.data_count = @ + 1], raised |-> "TypeError"]

get_current_ma(m) ==
    IF m.ma_type = "SMA"
    THEN IF Len(m.data_points) = 0 THEN None
         ELSE RDiv(SumPrices(m.data_points), R(Len(m.data_points)))
    ELSE IF ~m.initialized THEN None
    ELSE IF m.ma_type = "EMA" THEN m.ema1
    ELSE IF m.ma_type = "DEMA" THEN RSub(RMul(R(2), m.ema1), m.ema2)
    ELSE RAdd(RSub(RMul(R(3), m.ema1), RMul(R(3), m.ema2)), m.ema3)

\* a reset that clears the series and leaves the smoothing stages alone
reset_series(m) ==
    [m EXCEPT !.data_count = 0, !.data_points = <<>>, !.timestamps = <<>>]

reset(m) ==
    LET m1 == [m EXCEPT !.data_count = 0, !.data_points = <<>>, !.timestamps = <<>>]
    IN  IF m.ma_type # "SMA"
        THEN [m1 EXCEPT !.ema1 = None, !.ema2 = None, !.ema3 = None,
                        !.initialized = FALSE, !.last_timestamp = None]
        ELSE m1

(***************************************************************************)
(* helper.TimeBasedMovement (the RangeTracker).  helper.py is not part of  *)
(* the sources; the tracker is modelled from the design document: points   *)
(* older than the span are dropped before the result is computed, calc()   *)
(* is the magnitude of the price movement over the retained points, and    *)
(* clear() discards all state.                                             *)
(***************************************************************************)

NewTimeBasedMovement(range) == [span |-> 60 * range, points |-> <<>>]

RECURSIVE DropWhileNotAfter(_, _)
DropWhileNotAfter(pts, cutoff_time) ==
    IF pts # <<>> /\ pts[1][1] <= cutoff_time
    THEN DropWhileNotAfter(Tail(pts), cutoff_time)
    ELSE pts

tbm_add(t, timestamp, price) ==
    [t EXCEPT !.points = Append(DropWhileNotAfter(@, timestamp - t.span),
                                <<timestamp, price>>)]

RECURSIVE MaxPrice(_)
MaxPrice(pts) ==
    IF Len(pts) = 1 THEN pts[1][2] ELSE RMax(pts[1][2], MaxPrice(Tail(pts)))

RECURSIVE MinPrice(_)
MinPrice(pts) ==
    IF Len(pts) = 1 THEN pts[1][2] ELSE RMin(pts[1][2], MinPrice(Tail(pts)))

tbm_calc(t) ==
    IF t.points = <<>> THEN R(0) ELSE RSub(MaxPrice(t.points), MinPrice(t.points))

tbm_clear(t) == [t EXCEPT !.points = <<>>]

(***************************************************************************)
(* Algo                                                                    *)
(***************************************************************************)

\* self.peak_follower_distance = 0.0002
peak_follower_distance == Rat(2, 10000)

\* Algo.__init__ with four timedelta intervals given in seconds
NewAlgo(base_interval, slow_interval, aspr_interval, peak_interval) ==
    [ base_ema_calc  |-> NewMA(base_interval, "EMA"),
      base_tema_calc |-> NewMA(base_interval, "TEMA"),
      slow_ema_calc  |-> NewMA(slow_interval, "EMA"),
      slow_tema_calc |-> NewMA(slow_interval, "TEMA"),
      aspr_ema_calc  |-> NewMA(aspr_interval, "EMA"),
      aspr_tema_calc |-> NewMA(aspr_interval, "TEMA"),
      peak_ema_calc  |-> NewMA(peak_interval, "EMA"),
      peak_tema_calc |-> NewMA(peak_interval, "TEMA"),
      peak_dema_calc |-> NewMA(peak_interval, "DEMA"),
      peak_tamplitude_calculator |-> NewTimeBasedMovement(1),
      base_ema_values  |-> <<>>,
      base_tema_values |-> <<>>,
      slow_ema_values  |-> <<>>,
      slow_tema_values |-> <<>>,
      aspr_ema_values  |-> <<>>,
      aspr_tema_values |-> <<>>,
      peak_ema_values  |-> <<>>,
      peak_tema_values |-> <<>>,
      peak_dema_values |-> <<>>,
      base_direction      |-> 0,
      base_cross_price    |-> None,
      base_mamplitude     |-> R(0),
      base_pamplitude     |-> R(0),
      base_min_price_temp |-> Inf,
      base_max_price_temp |-> NegInf,
      base_min_price      |-> None,
      base_max_price      |-> None,
      peak_direction      |-> 0,
      peak_cross_price    |-> None,
      peak_pamplitude     |-> R(0),
      peak_tamplitude     |-> R(0),
      peak_follower_up    |-> None,
      peak_follower_dn    |-> None,
      aspr_direction      |-> 0,
      aspr_cross_price    |-> None,
      aspr_min_price_temp |-> Inf,
      aspr_max_price_temp |-> NegInf,
      aspr_min_price      |-> None,
      aspr_max_price      |-> None,
      aspr_min_price_previous |-> None,
      aspr_max_price_previous |-> None,
      aspr_sideways_count |-> 0 ]

\* round((x / price) * 100, precision) if price != 0 else 0
PercentOf(x, price, precision) ==
    IF price[1] # 0 THEN round(RMul(RDiv(x, price), R(100)), precision) ELSE R(0)

\* an amplitude that follows the latest value: self.x = temp
LatchLatest(temp, latched) ==
    temp

\* max(latched, temp): "if temp > self.x: self.x = temp"
Latch(temp, latched) ==
    Let1(<<temp, latched>>, LAMBDA p : IF RGt(p[1], p[2]) THEN p[1] ELSE p[2])

\* "region Moving Average": the seven calculators fed and their rounded outputs
moving_averages(a, timestamp, price, precision) ==
    Let1([ be |-> add_data_point(a.base_ema_calc, timestamp, price),
           bt |-> add_data_point(a.base_tema_calc, timestamp, price),
           ae |-> add_data_point(a.aspr_ema_calc, timestamp, price),
           at |-> add_data_point(a.aspr_tema_calc, timestamp, price),
           pe |-> add_data_point(a.peak_ema_calc, timestamp, price),
           pt |-> add_data_point(a.peak_tema_calc, timestamp, price),
           pd |-> add_data_point(a.peak_dema_calc, timestamp, price) ],
         LAMBDA r :
         [ base_ema_calc  |-> r.be.ma,  base_ema  |-> round(r.be.ret, precision),
           base_tema_calc |-> r.bt.ma,  base_tema |-> round(r.bt.ret, precision),
           aspr_ema_calc  |-> r.ae.ma,  aspr_ema  |-> round(r.ae.ret, precision),
           aspr_tema_calc |-> r.at.ma,  aspr_tema |-> round(r.at.ret, precision),
           peak_ema_calc  |-> r.pe.ma,  peak_ema  |-> round(r.pe.ret, precision),
           peak_tema_calc |-> r.pt.ma,  peak_tema |-> round(r.pt.ret, precision),
           peak_dema_calc |-> r.pd.ma,  peak_dema |-> round(r.pd.ret, precision) ])

\* the latched running maxima of the base amplitudes, before any reset
base_amplitudes(a, price, precision, base_ema, base_tema) ==
    [ mamplitude |->
          Latch(PercentOf(round(RAbs(RSub(base_ema, base_tema)), precision),
                          price, precision),
                a.base_mamplitude),
      pamplitude |->
          IF Truthy(a.base_cross_price)
          THEN Latch(PercentOf(round(RAbs(RSub(price, a.base_cross_price)), precision),
                               price, precision),
                     a.base_pamplitude)
          ELSE a.base_pamplitude ]

\* a direction step that forgets the side of the last cross: every tick on the
\* lower or upper side counts as a change
base_direction_unlatched(direction, base_tema, base_ema) ==
    IF RLt(base_tema, base_ema) THEN [change |-> -1, direction |-> -1]
    ELSE IF RGt(base_tema, base_ema) THEN [change |-> 1, direction |-> 1]
    ELSE [change |-> 0, direction |-> direction]

\* a direction step that takes the first side seen for a cross
base_direction_from_flat(direction, base_tema, base_ema) ==
    IF RLt(base_tema, base_ema)
    THEN [change |-> IF direction # -1 THEN -1 ELSE 0, direction |-> -1]
    ELSE IF RGt(base_tema, base_ema)
    THEN [change |-> IF direction # 1 THEN 1 ELSE 0, direction |-> 1]
    ELSE [change |-> 0, direction |-> direction]

\* a direction step that follows the averages and never reports a change
base_direction_silent(direction, base_tema, base_ema) ==
    IF RLt(base_tema, base_ema) THEN [change |-> 0, direction |-> -1]
    ELSE IF RGt(base_tema, base_ema) THEN [change |-> 0, direction |-> 1]
    ELSE [change |-> 0, direction |-> direction]

\* "Real direction changes" of the base timescale
base_direction_step(direction, base_tema, base_ema) ==
    IF RLt(base_tema, base_ema)
    THEN [change |-> IF direction = 1 THEN -1 ELSE 0, direction |-> -1]
    ELSE IF RGt(base_tema, base_ema)
    THEN [change |-> IF direction = -1 THEN 1 ELSE 0, direction |-> 1]
    ELSE [change |-> 0, direction |-> direction]

\* a signal with the sign of the change inverted
base_signal_inverted(change, price, base_ema, base_tema) ==
    IF change > 0
    THEN IF RGt(price, base_ema) \/ RGt(price, base_tema) THEN <<-1>> ELSE None
    ELSE IF change < 0
    THEN IF RLt(price, base_ema) \/ RLt(price, base_tema) THEN <<1>> ELSE None
    ELSE None

\* "Conditional direction change for take to happen"
base_signal_of(change, price, base_ema, base_tema) ==
    IF change > 0
    THEN IF RGt(price, base_ema) \/ RGt(price, base_tema) THEN <<1>> ELSE None
    ELSE IF change < 0
    THEN IF RLt(price, base_ema) \/ RLt(price, base_tema) THEN <<-1>> ELSE None
    ELSE None

base_mpamplitude_of(change, price, base_ema, base_tema) ==
    IF change > 0
    THEN IF RGt(price, base_ema) \/ RGt(price, base_tema)
         THEN RAbs(RSub(base_ema, price)) ELSE None
    ELSE IF change < 0
    THEN IF RLt(price, base_ema) \/ RLt(price, base_tema)
         THEN RAbs(RSub(base_ema, price)) ELSE None
    ELSE None

\* a tracking that goes by the direction the call found, not the one it set
base_min_max_by_old_direction(a, direction, change, price) ==
    Let1([ min_temp1 |-> IF a.base_direction = -1 /\ RLt(price, a.base_min_price_temp)
                         THEN price ELSE a.base_min_price_temp,
           max_temp1 |-> IF a.base_direction = 1 /\ RGt(price, a.base_max_price_temp)
                         THEN price ELSE a.base_max_price_temp ],
         LAMBDA t :
         [ min_price      |-> IF change = 1 THEN t.min_temp1 ELSE a.base_min_price,
           min_price_temp |-> IF change = 1 THEN Inf ELSE t.min_temp1,
           max_price      |-> IF change = -1 THEN t.max_temp1 ELSE a.base_max_price,
           max_price_temp |-> IF change = -1 THEN NegInf ELSE t.max_temp1 ])

\* a latch that stores both extremes on every flip
base_min_max_latching_both(a, direction, change, price) ==
    Let1([ min_temp1 |-> IF direction = -1 /\ RLt(price, a.base_min_price_temp)
                         THEN price ELSE a.base_min_price_temp,
           max_temp1 |-> IF direction = 1 /\ RGt(price, a.base_max_price_temp)
                         THEN price ELSE a.base_max_price_temp ],
         LAMBDA t :
         [ min_price      |-> IF change # 0 THEN t.min_temp1 ELSE a.base_min_price,
           min_price_temp |-> IF change = 1 THEN Inf ELSE t.min_temp1,
           max_price      |-> IF change # 0 THEN t.max_temp1 ELSE a.base_max_price,
           max_price_temp |-> IF change = -1 THEN NegInf ELSE t.max_temp1 ])

\* "every row, calculate the min max price" (base)
base_min_max(a, direction, change, price) ==
    Let1([ min_temp1 |-> IF direction = -1 /\ RLt(price, a.base_min_price_temp)
                         THEN price ELSE a.base_min_price_temp,
           max_temp1 |-> IF direction = 1 /\ RGt(price, a.base_max_price_temp)
                         THEN price ELSE a.base_max_price_temp ],
         LAMBDA t :
         [ min_price      |-> IF change = 1 THEN t.min_temp1 ELSE a.base_min_price,
           min_price_temp |-> IF change = 1 THEN Inf ELSE t.min_temp1,
           max_price      |-> IF change = -1 THEN t.max_temp1 ELSE a.base_max_price,
           max_price_temp |-> IF change = -1 THEN NegInf ELSE t.max_temp1 ])

\* a record that reads the amplitude after the reset
base_captured_after_reset(change, amplitude) ==
    IF change # 0 THEN R(0) ELSE amplitude

\* "base_mamplitude = self.base_mamplitude": the amplitude the record reports is
\* read before the direction is examined, so before any reset
base_captured(change, amplitude) ==
    amplitude

\* "peak_pamplitude = self.peak_pamplitude": likewise read before the reset
peak_captured(change, amplitude) ==
    amplitude

\* an end of call that keeps the amplitude whatever happened
base_kept(change, amplitude) == amplitude

\* the base amplitudes stored at the end of the call: reset on a direction change
base_reset(change, amplitude) == IF change # 0 THEN R(0) ELSE amplitude

\* "region base": everything the base timescale computes in one call
base_region(a, price, precision, base_ema, base_tema) ==
    Let1([ amp |-> base_amplitudes(a, price, precision, base_ema, base_tema),
           dir |-> base_direction_step(a.base_direction, base_tema, base_ema) ],
         LAMBDA b :
         [ amp    |-> b.amp,
           dir    |-> b.dir,
           signal |-> base_signal_of(b.dir.change, price, base_ema, base_tema),
           mpamplitude |-> base_mpamplitude_of(b.dir.change, price, base_ema, base_tema),
           mm     |-> base_min_max(a, b.dir.direction, b.dir.change, price),
           mamplitude |-> base_reset(b.dir.change, b.amp.mamplitude),
           pamplitude |-> base_reset(b.dir.change, b.amp.pamplitude) ])

\* peak price amplitude: relative move from the last peak cross price, latched
peak_pamplitude_of(a, price) ==
    IF Truthy(a.peak_cross_price)
    THEN Let1(<<RAbs(RMul(RDiv(RSub(price, a.peak_cross_price), a.peak_cross_price),
                          R(100))),
                a.peak_pamplitude>>,
              LAMBDA p : IF RGt(RAbs(p[1]), RAbs(p[2])) THEN p[1] ELSE p[2])
    ELSE a.peak_pamplitude

\* "Time based movement tamplitude": the tracker's value, latched
peak_tamplitude_of(a, tracker) ==
    Let1(<<RAbs(tbm_calc(tracker)), a.peak_tamplitude>>,
         LAMBDA p : IF RGt(RAbs(p[1]), RAbs(p[2])) THEN p[1] ELSE p[2])

\* "Real direction changes" of the peak timescale
peak_direction_step(direction, peak_tema, peak_ema) ==
    IF RLt(peak_tema, peak_ema)
    THEN [change |-> IF direction = 1 THEN -1 ELSE 0, direction |-> -1]
    ELSE IF RGt(peak_tema, peak_ema)
    THEN [change |-> IF direction = -1 THEN 1 ELSE 0, direction |-> 1]
    ELSE [change |-> 0, direction |-> direction]

peak_signal_of(change) ==
    IF change > 0 THEN <<1>> ELSE IF change < 0 THEN <<-1>> ELSE None

\* "Reset amplitudes after processing"
peak_reset(change, amplitude) == IF change # 0 THEN R(0) ELSE amplitude

peak_tracker_reset(change, tracker) ==
    IF change # 0 THEN tbm_clear(tracker) ELSE tracker

\* a follower that tracks the price both ways
trail_up(follower_up, price) == RSub(price, peak_follower_distance)

\* the follower a rising price drags up: price - distance when that is higher
ratchet_up(follower_up, price) ==
    Let1(RSub(price, peak_follower_distance), LAMBDA distant_price :
         IF follower_up = None \/ RGt(distant_price, follower_up)
         THEN distant_price ELSE follower_up)

\* the follower a falling price drags down: price + distance when that is lower
ratchet_dn(follower_dn, price) ==
    Let1(RAdd(price, peak_follower_distance), LAMBDA distant_price :
         IF follower_dn = None \/ RLt(distant_price, follower_dn)
         THEN distant_price ELSE follower_dn)

\* followers that survive a change of direction
peak_followers_kept(a, direction, change, price) ==
    [ up |-> IF direction > 0 THEN ratchet_up(a.peak_follower_up, price)
             ELSE a.peak_follower_up,
      dn |-> IF direction < 0 THEN ratchet_dn(a.peak_follower_dn, price)
             ELSE a.peak_follower_dn ]

\* "Extreme peak detection": the followers ratchet, then are dropped on a change
peak_followers(a, direction, change, price) ==
    [ up |-> IF change # 0 THEN None
             ELSE IF direction > 0 THEN ratchet_up(a.peak_follower_up, price)
             ELSE a.peak_follower_up,
      dn |-> IF change # 0 THEN None
             ELSE IF direction > 0 THEN a.peak_follower_dn
             ELSE IF direction < 0 THEN ratchet_dn(a.peak_follower_dn, price)
             ELSE a.peak_follower_dn ]

\* "region peak": everything the peak timescale computes in one call
peak_region(a, timestamp, price, peak_ema, peak_tema) ==
    Let1([ tracker |-> tbm_add(a.peak_tamplitude_calculator, timestamp, price),
           dir     |-> peak_direction_step(a.peak_direction, peak_tema, peak_ema),
           pamp    |-> peak_pamplitude_of(a, price) ],
         LAMBDA k :
    Let1(peak_tamplitude_of(a, k.tracker), LAMBDA tamp :
         [ dir     |-> k.dir,
           pamp    |-> k.pamp,
           tamp    |-> tamp,
           signal  |-> peak_signal_of(k.dir.change),
           tracker |-> peak_tracker_reset(k.dir.change, k.tracker),
           pamplitude |-> peak_reset(k.dir.change, k.pamp),
           tamplitude |-> peak_reset(k.dir.change, tamp),
           fol     |-> peak_followers(a, k.dir.direction, k.dir.change, price) ]))

\* "Real direction changes" of the asperity timescale
aspr_direction_step(direction, aspr_tema, aspr_ema) ==
    IF RLt(aspr_tema, aspr_ema)
    THEN [change |-> IF direction = 1 THEN -1 ELSE 0, direction |-> -1]
    ELSE IF RGt(aspr_tema, aspr_ema)
    THEN [change |-> IF direction = -1 THEN 1 ELSE 0, direction |-> 1]
    ELSE [change |-> 0, direction |-> direction]

\* "Every row, calculate the min max price" (asperity)
aspr_min_max(a, direction, change, price) ==
    Let1([ min_temp1 |-> IF direction = -1 /\ RLt(price, a.aspr_min_price_temp)
                         THEN price ELSE a.aspr_min_price_temp,
           max_temp1 |-> IF direction = 1 /\ RGt(price, a.aspr_max_price_temp)
                         THEN price ELSE a.aspr_max_price_temp ],
         LAMBDA t :
         [ min_price_previous |-> IF change = 1 THEN a.aspr_min_price
                                  ELSE a.aspr_min_price_previous,
           min_price      |-> IF change = 1 THEN t.min_temp1 ELSE a.aspr_min_price,
           min_price_temp |-> IF change = 1 THEN Inf ELSE t.min_temp1,
           max_price_previous |-> IF change = -1 THEN a.aspr_max_price
                                  ELSE a.aspr_max_price_previous,
           max_price      |-> IF change = -1 THEN t.max_temp1 ELSE a.aspr_max_price,
           max_price_temp |-> IF change = -1 THEN NegInf ELSE t.max_temp1 ])

\* aspr_min_amplitude and aspr_max_amplitude (temp_value_2, temp_value_3)
aspr_amplitudes(mm, price, precision) ==
    IF Truthy(mm.min_price) /\ Truthy(mm.min_price_previous)
       /\ Truthy(mm.max_price) /\ Truthy(mm.max_price_previous)
    THEN [ min_amplitude |->
               PercentOf(RAbs(RSub(mm.min_price, mm.min_price_previous)), price, precision),
           max_amplitude |->
               PercentOf(RAbs(RSub(mm.max_price, mm.max_price_previous)), price, precision) ]
    ELSE [ min_amplitude |-> None, max_amplitude |-> None ]

\* "region asperity": everything the asperity timescale computes in one call
aspr_region(a, price, precision, aspr_ema, aspr_tema) ==
    Let1(aspr_direction_step(a.aspr_direction, aspr_tema, aspr_ema), LAMBDA dir :
    Let1(aspr_min_max(a, dir.direction, dir.change, price), LAMBDA mm :
         [ dir |-> dir, mm |-> mm, amp |-> aspr_amplitudes(mm, price, precision) ]))

\* process_row with a timestamp that is no datetime: the first add_data_point, on
\* base_ema_calc, raises and the call ends there
process_row_raising(a, fault) ==
    Let1(add_data_point_raising(a.base_ema_calc, fault), LAMBDA r :
         [algo |-> [a EXCEPT !.base_ema_calc = r.ma], raised |-> r.raised])

\* Algo.process_row(timestamp, price, precision, say): the aggregator after the
\* call and the returned record.  say is passed through and read nowhere.
process_row(a, timestamp, price, precision, say) ==
    Let1(moving_averages(a, timestamp, price, precision), LAMBDA v :
    Let1([ base |-> base_region(a, price, precision, v.base_ema, v.base_tema),
           peak |-> peak_region(a, timestamp, price, v.peak_ema, v.peak_tema),
           aspr |-> aspr_region(a, price, precision, v.aspr_ema, v.aspr_tema) ],
         LAMBDA g :
      [ algo |->
          [ a EXCEPT
              !.base_ema_calc  = v.base_ema_calc,
              !.base_tema_calc = v.base_tema_calc,
              !.aspr_ema_calc  = v.aspr_ema_calc,
              !.aspr_tema_calc = v.aspr_tema_calc,
              !.peak_ema_calc  = v.peak_ema_calc,
              !.peak_tema_calc = v.peak_tema_calc,
              !.peak_dema_calc = v.peak_dema_calc,
              !.base_ema_values  = Append(@, v.base_ema),
              !.base_tema_values = Append(@, v.base_tema),
              !.aspr_ema_values  = Append(@, v.aspr_ema),
              !.aspr_tema_values = Append(@, v.aspr_tema),
              !.peak_ema_values  = Append(@, v.peak_ema),
              !.peak_tema_values = Append(@, v.peak_tema),
              !.peak_dema_values = Append(@, v.peak_dema),
              !.base_direction   = g.base.dir.direction,
              !.base_cross_price = IF g.base.dir.change # 0 THEN price ELSE @,
              !.base_mamplitude  = g.base.mamplitude,
              !.base_pamplitude  = g.base.pamplitude,
              !.base_min_price_temp = g.base.mm.min_price_temp,
              !.base_max_price_temp = g.base.mm.max_price_temp,
              !.base_min_price = g.base.mm.min_price,
              !.base_max_price = g.base.mm.max_price,
              !.peak_tamplitude_calculator = g.peak.tracker,
              !.peak_direction   = g.peak.dir.direction,
              !.peak_cross_price = IF g.peak.dir.change # 0 THEN price ELSE @,
              !.peak_pamplitude  = g.peak.pamplitude,
              !.peak_tamplitude  = g.peak.tamplitude,
              !.peak_follower_up = g.peak.fol.up,
              !.peak_follower_dn = g.peak.fol.dn,
              !.aspr_direction   = g.aspr.dir.direction,
              !.aspr_cross_price = IF g.aspr.dir.change # 0 THEN price ELSE @,
              !.aspr_min_price_temp = g.aspr.mm.min_price_temp,
              !.aspr_max_price_temp = g.aspr.mm.max_price_temp,
              !.aspr_min_price = g.aspr.mm.min_price,
              !.aspr_max_price = g.aspr.mm.max_price,
              !.aspr_min_price_previous = g.aspr.mm.min_price_previous,
              !.aspr_max_price_previous = g.aspr.mm.max_price_previous ],
        ret |->
          [ timestamp        |-> timestamp,
            price            |-> price,
            base_signal      |-> g.base.signal,
            base_ema         |-> v.base_ema,
            base_tema        |-> v.base_tema,
            base_cross_price |-> IF g.base.dir.change # 0 THEN price ELSE None,
            base_direction   |-> g.base.dir.direction,
            base_mamplitude  |-> base_captured(g.base.dir.change, g.base.amp.mamplitude),
            base_pamplitude  |-> base_captured(g.base.dir.change, g.base.amp.pamplitude),
            base_min_price   |-> g.base.mm.min_price,
            base_max_price   |-> g.base.mm.max_price,
            peak_signal      |-> g.peak.signal,
            peak_cross_price |-> IF g.peak.dir.change # 0 THEN price ELSE None,
            peak_direction   |-> g.peak.dir.direction,
            peak_pamplitude  |-> peak_captured(g.peak.dir.change, g.peak.pamp),
            peak_tamplitude  |-> peak_captured(g.peak.dir.change, g.peak.tamp),
            peak_follower_up |-> g.peak.fol.up,
            peak_follower_dn |-> g.peak.fol.dn,
            aspr_min_price   |-> g.aspr.mm.min_price,
            aspr_max_price   |-> g.aspr.mm.max_price,
            temp_value_1     |-> g.base.mpamplitude,
            temp_value_2     |-> g.aspr.amp.min_amplitude,
            temp_value_3     |-> g.aspr.amp.max_amplitude,
            temp_value_4     |-> None ] ]))

(***************************************************************************)
(* Decider                                                                 *)
(***************************************************************************)

\* Decider.__init__
NewDecider ==
    [ base_mamplitude_threshold |-> Rat(2, 100),
      base_mamplitude_enough    |-> FALSE,
      base_pamplitude_threshold |-> Rat(3, 100),
      base_pamplitude_enough    |-> FALSE,
      peak_pamplitude_threshold |-> Rat(4, 100),
      peak_pamplitude_enough    |-> FALSE,
      peak_tamplitude_threshold |-> Rat(2, 100),
      peak_tamplitude_enough    |-> FALSE,
      xtpk_found                |-> FALSE,
      peak_extreme_distance     |-> Rat(2, 10000),
      aspr_xamplitude_threshold |-> Rat(4, 100),
      aspr_sideways_count       |-> 0,
      xtpk_price_dn_following_crossed |-> FALSE,
      xtpk_price_up_following_crossed |-> FALSE ]

\* the 0.0001 offset of the base rule's provisional price
base_price_offset == Rat(1, 10000)

base_enough(d, r) ==
    /\ RGe(r.base_mamplitude, d.base_mamplitude_threshold)
    /\ RGe(r.base_pamplitude, d.base_pamplitude_threshold)

peak_enough(d, r) ==
    /\ RGe(r.peak_pamplitude, d.peak_pamplitude_threshold)
    /\ RGe(r.peak_tamplitude, d.peak_tamplitude_threshold)

\* region Base: the decision fields after the base rule, given whether both base
\* amplitudes reached their thresholds
base_rule(enough, r) ==
    LET none == [ decision |-> None, decision_algo |-> None, message |-> None,
                  decision_up |-> None, decision_dn |-> None,
                  base_signal_up |-> None, base_signal_dn |-> None ]
        sig == r.base_signal
    IN  IF ~Truthy(sig) THEN none
        ELSE IF enough
        THEN [ none EXCEPT
                 !.decision = sig,
                 !.decision_algo = <<"base">>,
                 !.decision_up = IF sig[1] > 0 THEN r.price ELSE @,
                 !.base_signal_up = IF sig[1] > 0 THEN r.price ELSE @,
                 !.decision_dn = IF sig[1] < 0 THEN r.price ELSE @,
                 !.base_signal_dn = IF sig[1] < 0 THEN r.price ELSE @,
                 !.message = <<"base", sig[1], "with enough amplitude">> ]
        ELSE LET up == IF sig[1] > 0 /\ Truthy(r.base_max_price)
                       THEN RAdd(r.base_max_price, base_price_offset) ELSE None
                 dn == IF sig[1] < 0 /\ Truthy(r.base_min_price)
                       THEN RSub(r.base_min_price, base_price_offset) ELSE None
             IN  [ none EXCEPT
                     !.decision = sig,
                     !.decision_algo = <<"base">>,
                     !.decision_up = up,
                     !.base_signal_up = up,
                     !.decision_dn = dn,
                     !.base_signal_dn = dn,
                     !.message = <<"base", sig[1], "without enough amplitude">> ]

\* a base rule that never looks at the thresholds and prices at the tick
decide_base_unchecked(d, r) == base_rule(TRUE, r)

\* a base rule that never trusts the amplitudes and prices off the latched extreme
decide_base_distrusting(d, r) == base_rule(FALSE, r)

decide_base(d, r) == base_rule(base_enough(d, r), r)

\* region Peak, first part: the peak rule applied after the base rule, given
\* whether it fires
peak_rule(fires, r, f) ==
    LET f0 == [ decision |-> f.decision, decision_algo |-> f.decision_algo,
                message |-> f.message,
                decision_up |-> f.decision_up, decision_dn |-> f.decision_dn,
                base_signal_up |-> f.base_signal_up,
                base_signal_dn |-> f.base_signal_dn,
                peak_signal_up |-> None, peak_signal_dn |-> None ]
        sig == r.peak_signal
    IN  IF fires
        THEN [ f0 EXCEPT
                 !.decision = sig,
                 !.decision_algo = <<"peak">>,
                 !.decision_up = IF sig[1] > 0 THEN r.price ELSE @,
                 !.peak_signal_up = IF sig[1] > 0 THEN r.price ELSE @,
                 !.decision_dn = IF sig[1] < 0 THEN r.price ELSE @,
                 !.peak_signal_dn = IF sig[1] < 0 THEN r.price ELSE @,
                 !.message = <<"peak", sig[1], "with enough amplitude">> ]
        ELSE f0

\* a peak rule that yields to a base decision already made
decide_peak_yielding(d, r, f) ==
    peak_rule(Truthy(r.peak_signal) /\ peak_enough(d, r) /\ f.decision = None, r, f)

decide_peak(d, r, f) == peak_rule(Truthy(r.peak_signal) /\ peak_enough(d, r), r, f)

\* region Peak, second part: the extreme peak rule and its latch; found_otherwise
\* is the latch a record below the peak thresholds leaves behind
xtpk_rule(d, r, f, found_otherwise) ==
    LET qualifies == peak_enough(d, r)
        dn_hit == /\ qualifies /\ ~d.xtpk_found
                  /\ Truthy(r.peak_follower_dn) /\ RGt(r.price, r.peak_follower_dn)
        up_hit == /\ qualifies /\ ~d.xtpk_found
                  /\ Truthy(r.peak_follower_up) /\ RLt(r.price, r.peak_follower_up)
    IN  [ xtpk_found     |-> IF qualifies THEN (d.xtpk_found \/ dn_hit \/ up_hit)
                             ELSE found_otherwise,
          xtpk_signal_up |-> IF dn_hit THEN r.price ELSE None,
          xtpk_signal_dn |-> IF up_hit THEN r.price ELSE None,
          decision_up    |-> IF dn_hit THEN r.price ELSE f.decision_up,
          decision_dn    |-> IF up_hit THEN r.price ELSE f.decision_dn ]

\* an extreme rule whose latch survives a record below the peak thresholds
decide_xtpk_sticky(d, r, f) == xtpk_rule(d, r, f, d.xtpk_found)

decide_xtpk(d, r, f) == xtpk_rule(d, r, f, FALSE)

\* the three rules of decide in order: the gate after the call and the updated record
decide_rules(d, return_dict) ==
    Let1(decide_peak(d, return_dict, decide_base(d, return_dict)), LAMBDA p :
    Let1(decide_xtpk(d, return_dict, p), LAMBDA x :
      [ decider |-> [d EXCEPT !.xtpk_found = x.xtpk_found],
        ret |->
          [ base_signal_up |-> p.base_signal_up,
            base_signal_dn |-> p.base_signal_dn,
            base_mamplitude_threshold |-> d.base_mamplitude_threshold,
            base_pamplitude_threshold |-> d.base_pamplitude_threshold,
            peak_signal_up |-> p.peak_signal_up,
            peak_signal_dn |-> p.peak_signal_dn,
            peak_pamplitude_threshold |-> d.peak_pamplitude_threshold,
            peak_tamplitude_threshold |-> d.peak_tamplitude_threshold,
            xtpk_signal_up |-> x.xtpk_signal_up,
            xtpk_signal_dn |-> x.xtpk_signal_dn,
            decision       |-> p.decision,
            decision_algo  |-> p.decision_algo,
            message        |-> p.message,
            decision_up    |-> x.decision_up,
            decision_dn    |-> x.decision_dn ] @@ return_dict ]))

\* a gate that words its decision only when asked to announce it
decide_quiet(d, return_dict, say) ==
    Let1(decide_rules(d, return_dict), LAMBDA res :
         [res EXCEPT !.ret.message = IF say THEN @ ELSE None])

\* a gate that notes on itself whether the peak amplitudes were enough
decide_noting_enough(d, return_dict, say) ==
    Let1(decide_rules(d, return_dict), LAMBDA res :
         [res EXCEPT !.decider.peak_pamplitude_enough = peak_enough(d, return_dict)])

\* Decider.decide(return_dict, say): say only hands the message to the notifier
decide(d, return_dict, say) == decide_rules(d, return_dict)

(***************************************************************************)
(* main.py: process_price_payload                                          *)
(*                                                                         *)
(* A payload is [present, timestamp, price, quote, mid]: present is the    *)
(* payload's truth value (None and {} are falsy); timestamp is             *)
(* [kind, at] with kind "datetime" (a parseable time, at seconds),         *)
(* "absent" or "unparseable"; price is what the price / mid / last chain   *)
(* yields, None when none is set; quote tells whether bid and ask are      *)
(* "absent", "unusable" (float() raises on one) or "usable", and mid is    *)
(* their mean.                                                             *)
(***************************************************************************)

\* the price process_price_payload settles on, None when there is none
payload_price(payload) ==
    IF payload.price # None THEN payload.price
    ELSE IF payload.quote = "usable" THEN payload.mid
    ELSE None

\* a variant that answers a tick without a usable timestamp with no result, the
\* calculator untouched
process_price_payload_guarded(payload, m) ==
    IF ~payload.present \/ payload_price(payload) = None
         \/ payload.timestamp.kind # "datetime"
    THEN [ma |-> m, ret |-> None, raised |-> "none"]
    ELSE Let1(add_data_point(m, payload.timestamp.at, payload_price(payload)), LAMBDA res :
           [ma |-> res.ma, ret |-> res.ret, raised |-> "none"])

\* process_price_payload(payload, instrument, ma, r, signals_stream, ttl): the
\* calculator after the call, the value returned and the exception that left
\* the call.  Failures of the two writes of the result are caught and printed.
process_price_payload(payload, m) ==
    IF ~payload.present THEN [ma |-> m, ret |-> None, raised |-> "none"]
    ELSE IF payload_price(payload) = None THEN [ma |-> m, ret |-> None, raised |-> "none"]
    ELSE IF payload.timestamp.kind = "datetime"
    THEN Let1(add_data_point(m, payload.timestamp.at, payload_price(payload)), LAMBDA res :
           [ma |-> res.ma, ret |-> res.ret, raised |-> "none"])
    ELSE Let1(add_data_point_raising(m, payload.timestamp.kind), LAMBDA res :
           [ma |-> res.ma, ret |-> None, raised |-> res.raised])

(***************************************************************************)
(* Aggregator / gate pairs, one per instrument                             *)
(*                                                                         *)
(* A pair is [algo, decider, record, pc, now, calls, out]: the two         *)
(* instances, the dict last returned, whether a record awaits decide, the  *)
(* timestamp of the last tick, the calls made on the pair so far and the   *)
(* decided records it produced.                                            *)
(***************************************************************************)

Instruments == {1, 2}

RowCall(timestamp, price) == [op |-> "row", timestamp |-> timestamp, price |-> price]

DecideCall == [op |-> "decide", timestamp |-> 0, price |-> R(0)]

\* the pair a caller constructs: Algo(...) and Decider()
NewPair(interval) ==
    [ algo    |-> NewAlgo(interval, interval, interval, interval),
      decider |-> NewDecider,
      record  |-> None,
      pc      |-> "start",
      now     |-> 0,
      calls   |-> <<>>,
      out     |-> <<>> ]

\* the pair after its aggregator's process_row(timestamp, price, precision)
pair_row(pair, timestamp, price, precision) ==
    Let1(process_row(pair.algo, timestamp, price, precision, FALSE), LAMBDA res :
         [pair EXCEPT !.algo = res.algo, !.record = res.ret, !.pc = "row",
                      !.now = timestamp,
                      !.calls = Append(@, RowCall(timestamp, price))])

\* the pair after its gate's decide(record)
pair_decide(pair) ==
    Let1(decide(pair.decider, pair.record, FALSE), LAMBDA res :
         [pair EXCEPT !.decider = res.decider, !.record = res.ret, !.pc = "decided",
                      !.calls = Append(@, DecideCall),
                      !.out = Append(@, res.ret)])

\* aggregators that keep the base EMA calculator on the class: every instance
\* feeds and reads the one calculator
process_row_of_shared(ps, i, timestamp, price, precision) ==
    Let1(pair_row([ps[i] EXCEPT !.algo.base_ema_calc = ps[1].algo.base_ema_calc],
                  timestamp, price, precision),
         LAMBDA own :
           [ j \in DOMAIN ps |->
               IF j = i THEN own
               ELSE [ps[j] EXCEPT !.algo.base_ema_calc = own.algo.base_ema_calc] ])

\* process_row on the aggregator of instrument i: Algo.__init__ sets every
\* attribute, the calculators included, on the instance, and process_row reads
\* and writes attributes of self only
process_row_of(ps, i, timestamp, price, precision) ==
    [ps EXCEPT ![i] = pair_row(ps[i], timestamp, price, precision)]

\* decide on the gate of instrument i: Decider.__init__ sets every attribute on
\* the instance
decide_of(ps, i) ==
    [ps EXCEPT ![i] = pair_decide(ps[i])]

\* the pair that results from making the first k of the calls on a fresh pair,
\* no other pair around
RECURSIVE RunAlone(_, _, _)
RunAlone(interval, calls, k) ==
    IF k = 0 THEN NewPair(interval)
    ELSE Let1(RunAlone(interval, calls, k - 1), LAMBDA pair :
         IF calls[k].op = "row"
         THEN pair_row(pair, calls[k].timestamp, calls[k].price, 4)
         ELSE pair_decide(pair))

(***************************************************************************)
(* State                                                                   *)
(***************************************************************************)

VARIABLES
    algo,       \* the Algo instance
    decider,    \* the Decider instance
    record,     \* the dict last returned by process_row / updated by decide
    pc,         \* "start", "row" (a record awaits decide) or "decided"
    now,        \* timestamp of the last tick
    nticks,     \* number of ticks fed so far
    xtpk_run,   \* extreme signals emitted in the current run of qualifying records
    found_before, \* the gate's xtpk_found latch as the last decide call found it
    raised,     \* the exception the last call raised, "none" if it returned
    nfail,      \* number of calls that raised so far
    config,     \* the arguments of the last construction of a calculator
    ma,         \* a stand-alone TimeBasedStreamingMA
    ma_ret,     \* the value its last add_data_point returned
    ma_hist,    \* the ticks fed to it since construction or reset
    listening,  \* the listener: "idle", "stream", "scan" or "crashed"
    store,      \* the per-message price keys of the key-value store
    attempts,   \* per key, the process_price_payload calls made for it
    scanned,    \* the key the scan returned last, 0 before the first
    pairs,      \* per instrument, an aggregator / gate pair and what it was fed
    base_run    \* the prices of the ticks since the base direction last changed

vars == <<algo, decider, record, pc, now, nticks, xtpk_run, found_before, raised, nfail,
          config, ma, ma_ret, ma_hist, listening, store, attempts, scanned, pairs,
          base_run>>

\* the listener of main.py and the store it reads
listenVars == <<listening, store, attempts, scanned>>

MaxTicks == 4

MaxMATicks == 4

MaxCalls == 2

MaxFailures == 1

MaxKeys == 2

MaxPairTicks == 2

\* the names of the per-message price keys
Keys == 1 .. MaxKeys

\* the timestamps that are no datetime
TimestampFaults == {"unparseable", "absent"}

\* no construction yet
NoConfig ==
    [made |-> FALSE, time_window |-> WindowArg("timedelta", 60, 0, "s"),
     ma_type |-> "SMA", alpha |-> None]

\* seconds between consecutive ticks of the aggregator runs
Elapsed == {30, 60}

\* seconds between consecutive ticks of the stand-alone calculator
MAElapsed == {0, 30, 60}

\* the emit_side_effects flag handed to process_row, which never reads it
SayFlags == {FALSE}

\* tick prices of the aggregator runs
Prices == {R(1), Rat(10003, 10000), Rat(103, 100)}

\* the instrument precision handed to process_row
Precisions == {4}

\* tick prices and windows of the stand-alone calculator
MAPrices == {R(1), R(3)}

Windows == {60, 100}

\* the interval all timescales of the aggregator are constructed with
Interval == 100

\* the timestamps of the ticks the listener is handed
Stamps == {30, 60}

\* no payload: None or an empty dict
NoPayload ==
    [present |-> FALSE, timestamp |-> [kind |-> "absent", at |-> 0], price |-> None,
     quote |-> "absent", mid |-> R(1)]

TickPayload(kind, at, price, quote) ==
    [present |-> TRUE, timestamp |-> [kind |-> kind, at |-> at], price |-> price,
     quote |-> quote, mid |-> R(3)]

\* the payloads a stream entry or a key's JSON value decodes to
Payloads ==
    {NoPayload}
    \cup { TickPayload("datetime", at, R(1), "absent") : at \in Stamps }
    \cup { TickPayload("datetime", at, None, quote) :
             at \in Stamps, quote \in {"absent", "unusable", "usable"} }
    \cup { TickPayload(kind, 0, R(1), "absent") : kind \in TimestampFaults }

\* the payloads that are no well-formed tick: no payload, no price and no
\* usable bid and ask, no timestamp or one that does not parse
Malformed(payload) ==
    \/ ~payload.present
    \/ payload_price(payload) = None
    \/ payload.timestamp.kind # "datetime"

\* what a key of the store holds: nothing yet, nothing any more, an empty
\* value, a value that is not JSON, or a JSON payload
StoreValue(kind, payload) == [kind |-> kind, payload |-> payload]

Unwritten == StoreValue("unwritten", NoPayload)

Deleted == StoreValue("deleted", NoPayload)

StoreValues ==
    {StoreValue("empty", NoPayload), StoreValue("notjson", NoPayload)}
    \cup { StoreValue("json", payload) : payload \in Payloads }

NoStore == [k \in Keys |-> Unwritten]

\* the two pairs before any tick
NoPairs == [i \in Instruments |-> NewPair(Interval)]

\* seconds between consecutive ticks, and tick prices, of the two instruments
PairElapsed == {60}

PairPrices == {R(1), Rat(103, 100)}

(***************************************************************************)
(* Spec: the tick pipeline, process_row then decide                        *)
(***************************************************************************)

Init ==
    /\ algo = NewAlgo(Interval, Interval, Interval, Interval)
    /\ decider = NewDecider
    /\ record = None
    /\ pc = "start"
    /\ now = 0
    /\ nticks = 0
    /\ xtpk_run = 0
    /\ found_before = FALSE
    /\ raised = "none"
    /\ nfail = 0
    /\ config = NoConfig
    /\ ma = NewMA(60, "SMA")
    /\ ma_ret = None
    /\ ma_hist = <<>>
    /\ listening = "idle"
    /\ store = NoStore
    /\ attempts = [k \in Keys |-> 0]
    /\ scanned = 0
    /\ pairs = NoPairs
    /\ base_run = <<>>

\* the calculators process_row feeds
FedCalcs(a) ==
    { a.base_ema_calc, a.base_tema_calc, a.aspr_ema_calc, a.aspr_tema_calc,
      a.peak_ema_calc, a.peak_tema_calc, a.peak_dema_calc }

ProcessRow ==
    /\ pc \in {"start", "decided"}
    /\ nticks < MaxTicks
    /\ \E dt \in Elapsed, price \in Prices, precision \in Precisions, say \in SayFlags :
         /\ \A m \in FedCalcs(algo) : WeightRepresentable(m, now + dt)
         /\ LET res == process_row(algo, now + dt, price, precision, say)
            IN  /\ algo' = res.algo
                /\ record' = res.ret
                /\ base_run' = IF res.algo.base_direction # algo.base_direction
                               THEN <<price>> ELSE Append(base_run, price)
         /\ now' = now + dt
    /\ nticks' = nticks + 1
    /\ pc' = "row"
    /\ raised' = "none"
    /\ UNCHANGED <<decider, xtpk_run, found_before, nfail, config, ma, ma_ret, ma_hist>>
    /\ UNCHANGED <<listenVars, pairs>>

\* a process_row call that raises on its timestamp
ProcessBadRow ==
    /\ pc \in {"start", "decided"}
    /\ nfail < MaxFailures
    /\ \E fault \in TimestampFaults :
         LET res == process_row_raising(algo, fault)
         IN  /\ algo' = res.algo
             /\ raised' = res.raised
    /\ nfail' = nfail + 1
    /\ UNCHANGED <<decider, record, pc, now, nticks, xtpk_run, found_before, config,
                   ma, ma_ret, ma_hist>>
    /\ UNCHANGED <<listenVars, pairs, base_run>>

\* the number of extreme signals in a decided record
XtpkCount(r) ==
    (IF r.xtpk_signal_up # None THEN 1 ELSE 0) + (IF r.xtpk_signal_dn # None THEN 1 ELSE 0)

Decide ==
    /\ pc = "row"
    /\ \E say \in BOOLEAN :
         LET res == decide(decider, record, say)
         IN  /\ decider' = res.decider
             /\ record' = res.ret
             /\ xtpk_run' = IF peak_enough(decider, record)
                            THEN xtpk_run + XtpkCount(res.ret) ELSE 0
    /\ found_before' = decider.xtpk_found
    /\ pc' = "decided"
    /\ raised' = "none"
    /\ UNCHANGED <<algo, now, nticks, nfail, config, ma, ma_ret, ma_hist>>
    /\ UNCHANGED <<listenVars, pairs, base_run>>

Next == ProcessRow \/ Decide

Spec == Init /\ [][Next]_vars

(***************************************************************************)
(* SpecDecider: the gate fed arbitrary records                             *)
(***************************************************************************)

\* amplitude pairs: both thresholds met, the first below, the second below
BaseAmps == { <<Rat(2, 100), Rat(3, 100)>>, <<Rat(1, 100), Rat(3, 100)>>,
              <<Rat(2, 100), Rat(2, 100)>> }

PeakAmps == { <<Rat(4, 100), Rat(2, 100)>>, <<Rat(3, 100), Rat(2, 100)>>,
              <<Rat(4, 100), Rat(1, 100)>> }

\* latched extremes <<base_min_price, base_max_price>>
BaseExtremes == { <<None, None>>, <<Rat(9990, 10000), Rat(10010, 10000)>> }

\* followers <<peak_follower_up, peak_follower_dn>> around the tick price 1
Followers ==
    { <<None, None>>,
      <<None, Rat(9999, 10000)>>, <<None, Rat(10001, 10000)>>,
      <<Rat(10001, 10000), None>>, <<Rat(9999, 10000), None>>,
      <<Rat(10001, 10000), Rat(9999, 10000)>> }

Signals == {None, <<1>>, <<-1>>}

GateRecord(bs, ba, be, ps, pa, fo) ==
    [ timestamp        |-> 0,
      price            |-> R(1),
      base_signal      |-> bs,
      base_ema         |-> R(1),
      base_tema        |-> R(1),
      base_cross_price |-> IF bs = None THEN None ELSE R(1),
      base_direction   |-> IF bs = None THEN 0 ELSE bs[1],
      base_mamplitude  |-> ba[1],
      base_pamplitude  |-> ba[2],
      base_min_price   |-> be[1],
      base_max_price   |-> be[2],
      peak_signal      |-> ps,
      peak_cross_price |-> IF ps = None THEN None ELSE R(1),
      peak_direction   |-> IF ps = None THEN 0 ELSE ps[1],
      peak_pamplitude  |-> pa[1],
      peak_tamplitude  |-> pa[2],
      peak_follower_up |-> fo[1],
      peak_follower_dn |-> fo[2],
      aspr_min_price   |-> None,
      aspr_max_price   |-> None,
      temp_value_1     |-> None,
      temp_value_2     |-> None,
      temp_value_3     |-> None,
      temp_value_4     |-> None ]

GateRecords ==
    { GateRecord(bs, ba, be, ps, pa, fo) :
        bs \in Signals, ba \in BaseAmps, be \in BaseExtremes,
        ps \in Signals, pa \in PeakAmps, fo \in Followers }

Receive ==
    /\ pc \in {"start", "decided"}
    /\ nticks < MaxCalls
    /\ record' \in GateRecords
    /\ nticks' = nticks + 1
    /\ pc' = "row"
    /\ UNCHANGED <<algo, decider, now, xtpk_run, found_before, raised, nfail, config,
                   ma, ma_ret, ma_hist>>
    /\ UNCHANGED <<listenVars, pairs, base_run>>

NextDecider == Receive \/ Decide

SpecDecider == Init /\ [][NextDecider]_vars

(***************************************************************************)
(* SpecMA: one stand-alone calculator                                      *)
(***************************************************************************)

InitMA ==
    /\ algo = NewAlgo(Interval, Interval, Interval, Interval)
    /\ decider = NewDecider
    /\ record = None
    /\ pc = "start"
    /\ now = 0
    /\ nticks = 0
    /\ xtpk_run = 0
    /\ found_before = FALSE
    /\ raised = "none"
    /\ nfail = 0
    /\ config = NoConfig
    /\ ma \in { NewMA(w, t) : w \in Windows, t \in MATypes }
    /\ ma_ret = None
    /\ ma_hist = <<>>
    /\ listening = "idle"
    /\ store = NoStore
    /\ attempts = [k \in Keys |-> 0]
    /\ scanned = 0
    /\ pairs = NoPairs
    /\ base_run = <<>>

AddDataPoint ==
    /\ nticks < MaxMATicks
    /\ \E dt \in MAElapsed, price \in MAPrices :
         /\ WeightRepresentable(ma, now + dt)
         /\ LET res == add_data_point(ma, now + dt, price)
            IN  /\ ma' = res.ma
                /\ ma_ret' = res.ret
         /\ ma_hist' = Append(ma_hist, <<now + dt, price>>)
         /\ now' = now + dt
    /\ nticks' = nticks + 1
    /\ raised' = "none"
    /\ UNCHANGED <<algo, decider, record, pc, xtpk_run, found_before, nfail, config>>
    /\ UNCHANGED <<listenVars, pairs, base_run>>

\* an add_data_point call that raises on its timestamp
AddBadDataPoint ==
    /\ nfail < MaxFailures
    /\ \E fault \in TimestampFaults :
         LET res == add_data_point_raising(ma, fault)
         IN  /\ ma' = res.ma
             /\ raised' = res.raised
    /\ nfail' = nfail + 1
    /\ UNCHANGED <<algo, decider, record, pc, now, nticks, xtpk_run, found_before, config,
                   ma_ret, ma_hist>>
    /\ UNCHANGED <<listenVars, pairs, base_run>>

Reset ==
    /\ ma' = reset(ma)
    /\ ma_ret' = None
    /\ ma_hist' = <<>>
    /\ raised' = "none"
    /\ UNCHANGED <<algo, decider, record, pc, now, nticks, xtpk_run, found_before, nfail,
                   config>>
    /\ UNCHANGED <<listenVars, pairs, base_run>>

NextMA == AddDataPoint \/ Reset

SpecMA == InitMA /\ [][NextMA]_vars

(***************************************************************************)
(* SpecFail: a calculator and an aggregator handed faulty timestamps       *)
(***************************************************************************)

NextFail == AddDataPoint \/ AddBadDataPoint \/ ProcessBadRow

SpecFail == InitMA /\ [][NextFail]_vars

(***************************************************************************)
(* SpecConfig: constructions of a calculator                               *)
(***************************************************************************)

TypeArgs == {"SMA", "EMA", "DEMA", "TEMA", "tema", "WMA"}

\* window strings such as '-60s', '100s', '5min', '1h' and the deprecated '1H'
WindowStrings ==
    { WindowArg("str", 0, count, "s") : count \in {-60, 0, 30, 60, 100} }
    \cup { WindowArg("str", 0, count, unit) : count \in {1, 5}, unit \in {"min", "h", "H"} }

WindowArgs ==
    { WindowArg("timedelta", sec, 0, "s") : sec \in {-60, 0, 30, 60, 100, 300, 3600} }
    \cup WindowStrings
    \cup { WindowArg("unparseable", 0, 0, "s"), WindowArg("number", 60, 0, "s") }

AlphaArgs == {None, Rat(-1, 2), R(0), Rat(1, 2), R(1), Rat(3, 2)}

\* the arguments a caller is about to construct a calculator with
InitConfig ==
    /\ algo = NewAlgo(Interval, Interval, Interval, Interval)
    /\ decider = NewDecider
    /\ record = None
    /\ pc = "start"
    /\ now = 0
    /\ nticks = 0
    /\ xtpk_run = 0
    /\ found_before = FALSE
    /\ raised = "none"
    /\ nfail = 0
    /\ config \in { [made |-> FALSE, time_window |-> time_window,
                      ma_type |-> ma_type, alpha |-> alpha] :
                      time_window \in WindowArgs, ma_type \in TypeArgs,
                      alpha \in AlphaArgs }
    /\ ma = NewMA(60, "SMA")
    /\ ma_ret = None
    /\ ma_hist = <<>>
    /\ listening = "idle"
    /\ store = NoStore
    /\ attempts = [k \in Keys |-> 0]
    /\ scanned = 0
    /\ pairs = NoPairs
    /\ base_run = <<>>

\* TimeBasedStreamingMA(time_window, ma_type, alpha): a failed construction leaves
\* no calculator behind, the one held before stays
Construct ==
    /\ ~config.made
    /\ LET res == TimeBasedStreamingMA(config.time_window, config.ma_type, config.alpha)
       IN  /\ config' = [config EXCEPT !.made = TRUE]
           /\ raised' = res.raised
           /\ ma' = IF res.raised = "none" THEN res.ma ELSE ma
    /\ ma_ret' = None
    /\ ma_hist' = <<>>
    /\ UNCHANGED <<algo, decider, record, pc, now, nticks, xtpk_run, found_before, nfail>>
    /\ UNCHANGED <<listenVars, pairs, base_run>>

NextConfig == Construct

SpecConfig == InitConfig /\ [][NextConfig]_vars

(***************************************************************************)
(* SpecListen: listen() of main.py, consuming a stream or scanning keys    *)
(***************************************************************************)

\* listen(instrument, ma_window, ma_type, ttl) after it has constructed its
\* calculator and detected the delivery format
InitListen ==
    /\ algo = NewAlgo(Interval, Interval, Interval, Interval)
    /\ decider = NewDecider
    /\ record = None
    /\ pc = "start"
    /\ now = 0
    /\ nticks = 0
    /\ xtpk_run = 0
    /\ found_before = FALSE
    /\ raised = "none"
    /\ nfail = 0
    /\ config = NoConfig
    /\ ma \in { NewMA(Interval, t) : t \in {"SMA", "EMA"} }
    /\ ma_ret = None
    /\ ma_hist = <<>>
    /\ listening \in {"stream", "scan"}
    /\ store = NoStore
    /\ attempts = [k \in Keys |-> 0]
    /\ scanned = 0
    /\ pairs = NoPairs
    /\ base_run = <<>>

\* what one process_price_payload call of the listener leaves behind: an
\* exception leaves listen(), which catches KeyboardInterrupt only
Consume(payload, mode) ==
    LET res == process_price_payload(payload, ma)
    IN  /\ ma' = res.ma
        /\ ma_ret' = res.ret
        /\ raised' = res.raised
        /\ listening' = IF res.raised = "none" THEN mode ELSE "crashed"
        /\ ma_hist' = IF Malformed(payload) THEN ma_hist
                      ELSE Append(ma_hist, <<payload.timestamp.at, payload_price(payload)>>)
        /\ now' = IF Malformed(payload) THEN now ELSE payload.timestamp.at
        /\ nfail' = IF res.raised = "none" THEN nfail ELSE nfail + 1

\* stream mode: the body of the loop over the entries xread returned
StreamEntry ==
    /\ listening = "stream"
    /\ nticks < MaxMATicks
    /\ \E payload \in Payloads :
         /\ payload.timestamp.kind = "datetime" => WeightRepresentable(ma, payload.timestamp.at)
         /\ Consume(payload, "stream")
    /\ nticks' = nticks + 1
    /\ UNCHANGED <<algo, decider, record, pc, xtpk_run, found_before, config>>
    /\ UNCHANGED <<store, attempts, scanned, pairs, base_run>>

\* a producer sets a fresh per-message key
WriteKey ==
    /\ listening = "scan"
    /\ \E k \in Keys, value \in StoreValues :
         /\ store[k] = Unwritten
         /\ store' = [store EXCEPT ![k] = value]
    /\ UNCHANGED <<algo, decider, record, pc, now, nticks, xtpk_run, found_before, raised,
                   nfail, config, ma, ma_ret, ma_hist, listening, attempts, scanned,
                   pairs, base_run>>

\* a loop body that deletes a key only once its payload was processed
\* without an exception
scan_body_deleting_on_success(value, raises) ==
    [ processes |-> value.kind \in {"notjson", "json"},
      deletes   |-> value.kind \in {"notjson", "json"} /\ ~raises ]

\* the body of the scan loop for a key holding value: whether it hands a
\* payload to process_price_payload, and whether the key is deleted when the
\* body is left, be it by continue, normally or by the exception
scan_body(value, raises) ==
    [ processes |-> value.kind \in {"notjson", "json"},
      deletes   |-> TRUE ]

\* scan mode: the body of the loop over the keys scan_iter returns; a key
\* deleted since the scan saw it reads as no value
ScanKey ==
    /\ listening = "scan"
    /\ \E k \in Keys :
         /\ store[k] # Unwritten
         /\ scanned' = k
         /\ IF store[k].kind \in {"notjson", "json"}
            THEN /\ store[k].payload.timestamp.kind = "datetime"
                      => WeightRepresentable(ma, store[k].payload.timestamp.at)
                 /\ Consume(store[k].payload, "scan")
                 /\ attempts' = [attempts EXCEPT ![k] = @ + 1]
                 /\ store' = IF scan_body(store[k], process_price_payload(store[k].payload, ma).raised # "none").deletes
                             THEN [store EXCEPT ![k] = Deleted] ELSE store
            ELSE /\ store' = IF scan_body(store[k], FALSE).deletes
                             THEN [store EXCEPT ![k] = Deleted] ELSE store
                 /\ UNCHANGED <<ma, ma_ret, ma_hist, raised, listening, now, nfail, attempts>>
    /\ UNCHANGED <<algo, decider, record, pc, nticks, xtpk_run, found_before, config,
                   pairs, base_run>>

NextListen == StreamEntry \/ WriteKey \/ ScanKey

SpecListen == InitListen /\ [][NextListen]_vars

(***************************************************************************)
(* SpecPair: two instruments, their ticks interleaved                      *)
(***************************************************************************)

PairRow(i) ==
    /\ pairs[i].pc \in {"start", "decided"}
    /\ Len(pairs[i].out) < MaxPairTicks
    /\ \E dt \in PairElapsed, price \in PairPrices, precision \in Precisions :
         /\ \A m \in FedCalcs(pairs[i].algo) : WeightRepresentable(m, pairs[i].now + dt)
         /\ pairs' = process_row_of(pairs, i, pairs[i].now + dt, price, precision)
    /\ UNCHANGED <<algo, decider, record, pc, now, nticks, xtpk_run, found_before, raised,
                   nfail, config, ma, ma_ret, ma_hist, listenVars, base_run>>

PairDecide(i) ==
    /\ pairs[i].pc = "row"
    /\ pairs' = decide_of(pairs, i)
    /\ UNCHANGED <<algo, decider, record, pc, now, nticks, xtpk_run, found_before, raised,
                   nfail, config, ma, ma_ret, ma_hist, listenVars, base_run>>

NextPair == \E i \in Instruments : PairRow(i) \/ PairDecide(i)

SpecPair == Init /\ [][NextPair]_vars

(***************************************************************************)
(* Properties of the stand-alone calculator (SpecMA)                       *)
(***************************************************************************)

\* the calculator has been fed strictly increasing timestamps since its reset
StrictlyIncreasing(h) == \A i \in 1..(Len(h) - 1) : h[i][1] < h[i + 1][1]

Mean(pts) == RDiv(SumPrices(pts), R(Len(pts)))

\* the fed ticks strictly younger than the window
TicksAfterCutoff == SelectSeq(ma_hist, LAMBDA pt : pt[1] > now - ma.time_window)

\* the fed ticks not older than the window
TicksFromCutoff == SelectSeq(ma_hist, LAMBDA pt : pt[1] >= now - ma.time_window)

SMAFed == ma.ma_type = "SMA" /\ ma_ret # None /\ StrictlyIncreasing(ma_hist)

\* C1 as stated: after the k-th tick of strictly increasing timestamps the SMA
\* returned is the mean of exactly the ticks with t_k - W < timestamp <= t_k, a
\* tick exactly at t_k - W being evicted.
C1_MeanOfTicksAfterCutoff == SMAFed => ma_ret = Mean(TicksAfterCutoff)

\* C1 as the code has it: the SMA returned is the mean of exactly the ticks with
\* t_k - W <= timestamp <= t_k; only ticks strictly older than t_k - W are
\* evicted, a tick exactly at t_k - W is retained.
C1_MeanOfTicksFromCutoff ==
    SMAFed => /\ ma_ret = Mean(TicksFromCutoff)
              /\ ma.data_points = TicksFromCutoff

\* an SMA that has evicted an older tick and holds one exactly at the cutoff
C1_Witness ==
    /\ SMAFed
    /\ Len(TicksFromCutoff) < Len(ma_hist)
    /\ Len(TicksAfterCutoff) < Len(TicksFromCutoff)
    /\ ma_ret # Mean(TicksAfterCutoff)

(***************************************************************************)
(* Properties of the aggregator (Spec)                                     *)
(***************************************************************************)

\* a process_row step
RowStep == pc' = "row" /\ nticks' = nticks + 1

\* the side the fast average was on: 1 above the slow one, -1 below, 0 equal
Side(tema, ema) == IF RLt(tema, ema) THEN -1 ELSE IF RGt(tema, ema) THEN 1 ELSE 0

\* the tick of this step leaves the averages on the non-flat side of the tick before
SameSide(temas, emas, temas2, emas2) ==
    /\ Len(temas) > 0
    /\ Side(Last(temas), Last(emas)) # 0
    /\ Side(Last(temas2), Last(emas2)) = Side(Last(temas), Last(emas))

\* C2: a tick that leaves a timescale's fast/slow relation on the same non-flat
\* side as the previous tick changes neither the stored direction nor the stored
\* cross price, and the record carries no cross price nor signal for it.
C2_CrossoverIdempotence ==
    [][ RowStep =>
        /\ SameSide(algo.base_tema_values, algo.base_ema_values,
                    algo'.base_tema_values, algo'.base_ema_values)
           => /\ algo'.base_direction = algo.base_direction
              /\ algo'.base_cross_price = algo.base_cross_price
              /\ record'.base_cross_price = None
              /\ record'.base_signal = None
        /\ SameSide(algo.peak_tema_values, algo.peak_ema_values,
                    algo'.peak_tema_values, algo'.peak_ema_values)
           => /\ algo'.peak_direction = algo.peak_direction
              /\ algo'.peak_cross_price = algo.peak_cross_price
              /\ record'.peak_cross_price = None
              /\ record'.peak_signal = None
        /\ SameSide(algo.aspr_tema_values, algo.aspr_ema_values,
                    algo'.aspr_tema_values, algo'.aspr_ema_values)
           => /\ algo'.aspr_direction = algo.aspr_direction
              /\ algo'.aspr_cross_price = algo.aspr_cross_price ]_vars

\* a tick on the side of the tick before it, a cross price latched earlier
C2_Witness ==
    /\ pc = "row"
    /\ Len(algo.base_tema_values) >= 2
    /\ LET n == Len(algo.base_tema_values)
       IN  /\ Side(algo.base_tema_values[n], algo.base_ema_values[n]) # 0
           /\ Side(algo.base_tema_values[n], algo.base_ema_values[n])
                = Side(algo.base_tema_values[n - 1], algo.base_ema_values[n - 1])
    /\ algo.base_cross_price # None
    /\ record.base_cross_price = None

BaseFlip == algo.base_direction # 0 /\ algo'.base_direction = -algo.base_direction

PeakFlip == algo.peak_direction # 0 /\ algo'.peak_direction = -algo.peak_direction

\* C3: when process_row returns from a tick on which the base direction flipped,
\* the stored base amplitudes are both 0; when the peak direction flipped, the
\* stored peak amplitudes are both 0 and the range tracker is cleared.
C3_AmplitudeResetOnFlip ==
    [][ RowStep =>
        /\ BaseFlip => /\ algo'.base_mamplitude = R(0)
                       /\ algo'.base_pamplitude = R(0)
        /\ PeakFlip => /\ algo'.peak_pamplitude = R(0)
                       /\ algo'.peak_tamplitude = R(0)
                       /\ algo'.peak_tamplitude_calculator.points = <<>> ]_vars

\* a tick that flipped both directions with amplitudes built up: the record
\* carries them, the aggregator holds zeros
C3_Witness ==
    /\ pc = "row"
    /\ record.base_cross_price # None
    /\ record.peak_cross_price # None
    /\ RGt(record.base_mamplitude, R(0))
    /\ RGt(record.peak_tamplitude, R(0))
    /\ algo.base_mamplitude = R(0)
    /\ algo.peak_tamplitude = R(0)

\* C4: between flips of the peak direction the upper follower never decreases
\* and the lower follower never increases, neither is dropped, and after a flip
\* both are absent.
C4_FollowerRatchet ==
    [][ RowStep =>
        IF PeakFlip
        THEN algo'.peak_follower_up = None /\ algo'.peak_follower_dn = None
        ELSE /\ algo.peak_follower_up # None
                => /\ algo'.peak_follower_up # None
                   /\ RGe(algo'.peak_follower_up, algo.peak_follower_up)
             /\ algo.peak_follower_dn # None
                => /\ algo'.peak_follower_dn # None
                   /\ RLe(algo'.peak_follower_dn, algo.peak_follower_dn) ]_vars

\* the upper follower held above price - distance by an earlier, higher tick
C4_Witness ==
    /\ pc = "row"
    /\ algo.peak_follower_up # None
    /\ RGt(algo.peak_follower_up, RSub(record.price, peak_follower_distance))

(***************************************************************************)
(* Properties of the gate (SpecDecider)                                    *)
(***************************************************************************)

\* decide has just returned
Decided == pc = "decided"

BaseSignalled == Truthy(record.base_signal)

\* the peak rule fired on the record
PeakFires == Truthy(record.peak_signal) /\ peak_enough(decider, record)

\* the extreme rule fired on the record
XtpkFires == record.xtpk_signal_up # None \/ record.xtpk_signal_dn # None

\* C5: over a maximal run of consecutive records that all meet both peak
\* thresholds, at most one extreme signal (up or down) is emitted.
C5_OneExtremeSignalPerRun == xtpk_run <= 1

\* C6: a record below either peak threshold leaves the latch unset and emits no
\* extreme signal; a record meeting both never resets a set latch.
C6_LatchReset ==
    Decided =>
        IF peak_enough(decider, record)
        THEN found_before => decider.xtpk_found
        ELSE /\ ~decider.xtpk_found
             /\ record.xtpk_signal_up = None
             /\ record.xtpk_signal_dn = None

\* a set latch met a record below the thresholds and was reset
C6_Witness ==
    /\ Decided
    /\ found_before
    /\ ~peak_enough(decider, record)
    /\ ~decider.xtpk_found

\* C7 as stated: for every record with a base signal and a base amplitude below
\* its threshold, decision = base_signal, decision_algo = "base" and the effective
\* price in the signal's direction is the latched extreme offset by 0.0001.
C7_ProvisionalPriceAlways ==
    (Decided /\ BaseSignalled /\ ~base_enough(decider, record)) =>
        /\ record.decision = record.base_signal
        /\ record.decision_algo = <<"base">>
        /\ record.base_signal[1] > 0
           => /\ record.base_max_price # None
              /\ record.decision_up = RAdd(record.base_max_price, base_price_offset)
        /\ record.base_signal[1] < 0
           => /\ record.base_min_price # None
              /\ record.decision_dn = RSub(record.base_min_price, base_price_offset)

\* the price the base rule gives a provisional signal: the latched extreme offset
\* by 0.0001 when that extreme is present and not zero, nothing otherwise
ProvisionalUp ==
    IF record.base_signal[1] > 0 /\ Truthy(record.base_max_price)
    THEN RAdd(record.base_max_price, base_price_offset) ELSE None

ProvisionalDn ==
    IF record.base_signal[1] < 0 /\ Truthy(record.base_min_price)
    THEN RSub(record.base_min_price, base_price_offset) ELSE None

\* C7 as the code has it: for such a record the base rule prices the signal's
\* direction at the latched extreme offset by 0.0001 when that extreme is present
\* and not zero and sets no price otherwise, never the tick price; decision =
\* base_signal and decision_algo = "base" stand unless the peak rule fires, and
\* the price stands as the effective price unless the peak or extreme rule fires.
C7_ProvisionalPrice ==
    (Decided /\ BaseSignalled /\ ~base_enough(decider, record)) =>
        /\ record.base_signal_up = ProvisionalUp
        /\ record.base_signal_dn = ProvisionalDn
        /\ ~PeakFires => /\ record.decision = record.base_signal
                         /\ record.decision_algo = <<"base">>
        /\ (~PeakFires /\ ~XtpkFires) => /\ record.decision_up = ProvisionalUp
                                         /\ record.decision_dn = ProvisionalDn

\* a provisional up signal priced off the latched maximum, not the tick
C7_Witness ==
    /\ Decided
    /\ record.base_signal = <<1>>
    /\ ~base_enough(decider, record)
    /\ Truthy(record.base_max_price)
    /\ record.decision = <<1>>
    /\ record.decision_algo = <<"base">>
    /\ record.decision_up = RAdd(record.base_max_price, base_price_offset)
    /\ record.decision_up # record.price

\* C8: for a record with a base signal and both base amplitudes at or above
\* their thresholds the base rule sets decision = base_signal, decision_algo =
\* "base" and the effective price in the signal's direction to the tick price.
C8_ConfirmedBaseDecision ==
    (Decided /\ BaseSignalled /\ base_enough(decider, record)) =>
        /\ record.base_signal[1] > 0
           => /\ record.base_signal_up = record.price
              /\ record.base_signal_dn = None
              /\ record.decision_up = record.price
        /\ record.base_signal[1] < 0
           => /\ record.base_signal_dn = record.price
              /\ record.base_signal_up = None
              /\ record.decision_dn = record.price
        /\ ~PeakFires => /\ record.decision = record.base_signal
                         /\ record.decision_algo = <<"base">>

\* a confirmed down signal priced at the tick although a minimum is latched
C8_Witness ==
    /\ Decided
    /\ record.base_signal = <<-1>>
    /\ base_enough(decider, record)
    /\ Truthy(record.base_min_price)
    /\ record.decision = <<-1>>
    /\ record.decision_algo = <<"base">>
    /\ record.decision_dn = record.price

\* C9: the peak rule fires exactly when peak_signal is present and both peak
\* amplitudes reach their thresholds; it then overwrites decision and
\* decision_algo with the peak signal and "peak" and prices its direction at the
\* tick; otherwise the base rule's decision stands.
C9_PeakRuleOverride ==
    Decided =>
        IF PeakFires
        THEN /\ record.decision = record.peak_signal
             /\ record.decision_algo = <<"peak">>
             /\ record.peak_signal[1] > 0
                => /\ record.peak_signal_up = record.price
                   /\ record.decision_up = record.price
             /\ record.peak_signal[1] < 0
                => /\ record.peak_signal_dn = record.price
                   /\ record.decision_dn = record.price
        ELSE /\ record.peak_signal_up = None
             /\ record.peak_signal_dn = None
             /\ record.decision = IF BaseSignalled THEN record.base_signal ELSE None
             /\ record.decision_algo = IF BaseSignalled THEN <<"base">> ELSE None
             /\ ~XtpkFires => /\ record.decision_up = record.base_signal_up
                              /\ record.decision_dn = record.base_signal_dn

\* a peak signal overriding a base signal of the opposite direction
C9_Witness ==
    /\ Decided
    /\ record.base_signal = <<1>>
    /\ record.peak_signal = <<-1>>
    /\ peak_enough(decider, record)
    /\ record.decision = <<-1>>
    /\ record.decision_algo = <<"peak">>
    /\ record.decision_dn = record.price

\* C10: the extreme rule checks the two followers as if / else-if: one decide
\* call emits at most one of xtpk_signal_up and xtpk_signal_dn, also when both
\* followers are set.
C10_AtMostOneExtremeSide ==
    Decided => ~(record.xtpk_signal_up # None /\ record.xtpk_signal_dn # None)

(***************************************************************************)
(* Further properties of the stand-alone calculator (SpecMA)               *)
(***************************************************************************)

\* C11: the first add_data_point on a freshly constructed or freshly reset
\* calculator of any type returns exactly the supplied price.
C11_FirstTickReturnsPrice ==
    (Len(ma_hist) = 1 /\ ma_ret # None) => ma_ret = ma_hist[1][2]

\* the first tick after a reset of a smoothing calculator that had been fed
C11_Witness ==
    /\ Len(ma_hist) = 1
    /\ nticks >= 2
    /\ ma.ma_type = "TEMA"
    /\ RLt(ma.alpha, R(1))
    /\ ma_ret = R(3)

\* C19: reset() returns the calculator to its just-configured state whatever it
\* was fed (count 0, no points, no stages, not initialized, no last timestamp,
\* no current average); on an empty calculator it changes nothing, and resetting
\* twice equals resetting once.
C19_ResetRestoresConfigured ==
    /\ reset(ma) = NewMA(ma.time_window, ma.ma_type)
    /\ get_current_ma(reset(ma)) = None
    /\ reset(reset(ma)) = reset(ma)
    /\ ma = NewMA(ma.time_window, ma.ma_type) => reset(ma) = ma

\* a smoothing calculator back in its configured state after ticks and a reset
C19_Witness ==
    /\ nticks >= 2
    /\ ma_hist = <<>>
    /\ ma.ma_type = "DEMA"
    /\ ma = NewMA(ma.time_window, ma.ma_type)

(***************************************************************************)
(* Further properties of the aggregator (Spec)                             *)
(***************************************************************************)

\* every tick so far left the two averages equal
AllFlat(temas, emas) == \A i \in 1..Len(temas) : Side(temas[i], emas[i]) = 0

\* the calculators the aggregator owns
OwnedCalcs(a) ==
    { a.base_ema_calc, a.base_tema_calc, a.slow_ema_calc, a.slow_tema_calc,
      a.aspr_ema_calc, a.aspr_tema_calc,
      a.peak_ema_calc, a.peak_tema_calc, a.peak_dema_calc }

\* C12: every process_row call feeds the tick to all nine calculators the
\* aggregator owns: after n calls each of the nine has a data count of n.
C12_AllNineFed == \A m \in OwnedCalcs(algo) : m.data_count = nticks

\* C13: for each timescale the direction is 0 only before the first tick on
\* which the rounded TEMA and EMA differ; once +1 or -1 it never returns to 0;
\* the tick that leaves 0 reports no change, no cross price and no signal.
C13_FlatInitialOnly ==
    [][ RowStep =>
        /\ algo'.base_direction = 0
             <=> AllFlat(algo'.base_tema_values, algo'.base_ema_values)
        /\ algo'.peak_direction = 0
             <=> AllFlat(algo'.peak_tema_values, algo'.peak_ema_values)
        /\ algo'.aspr_direction = 0
             <=> AllFlat(algo'.aspr_tema_values, algo'.aspr_ema_values)
        /\ algo.base_direction # 0 => algo'.base_direction # 0
        /\ algo.peak_direction # 0 => algo'.peak_direction # 0
        /\ algo.aspr_direction # 0 => algo'.aspr_direction # 0
        /\ (algo.base_direction = 0 /\ algo'.base_direction # 0)
           => /\ record'.base_cross_price = None
              /\ record'.base_signal = None
              /\ algo'.base_cross_price = None
        /\ (algo.peak_direction = 0 /\ algo'.peak_direction # 0)
           => /\ record'.peak_cross_price = None
              /\ record'.peak_signal = None
              /\ algo'.peak_cross_price = None
        /\ (algo.aspr_direction = 0 /\ algo'.aspr_direction # 0)
           => algo'.aspr_cross_price = None ]_vars

\* the tick that left FLAT after two flat ticks: a direction and nothing reported
C13_Witness ==
    /\ pc = "row"
    /\ Len(algo.base_tema_values) = 3
    /\ AllFlat(SubSeq(algo.base_tema_values, 1, 2), SubSeq(algo.base_ema_values, 1, 2))
    /\ algo.base_direction = -1
    /\ record.base_direction = -1
    /\ record.base_cross_price = None
    /\ record.base_signal = None

\* C14: a process_row call flips the base direction to -1, the record's cross
\* price being the tick price, exactly when rounded tema < rounded ema and the
\* direction was +1, and to +1 when tema > ema and the direction was -1; with
\* tema = ema direction and stored cross price are unchanged; the record's
\* base_cross_price is present only on flip ticks.
C14_FlipDetection ==
    [][ RowStep =>
        LET s == Side(Last(algo'.base_tema_values), Last(algo'.base_ema_values))
            flip == s # 0 /\ algo.base_direction = -s
        IN  /\ flip => /\ algo'.base_direction = s
                       /\ record'.base_cross_price = record'.price
                       /\ algo'.base_cross_price = record'.price
            /\ ~flip => /\ record'.base_cross_price = None
                        /\ algo'.base_cross_price = algo.base_cross_price
            /\ s = 0 => algo'.base_direction = algo.base_direction
            /\ s # 0 => algo'.base_direction = s
            /\ record'.base_direction = algo'.base_direction
            /\ record'.base_ema = Last(algo'.base_ema_values)
            /\ record'.base_tema = Last(algo'.base_tema_values) ]_vars

\* a down flip: the record carries the tick price as cross price
C14_Witness ==
    /\ pc = "row"
    /\ record.base_direction = -1
    /\ RLt(record.base_tema, record.base_ema)
    /\ record.base_cross_price = record.price
    /\ algo.base_cross_price = record.price

\* the record's tick flipped the base direction
RecordFlipped == record.base_cross_price # None

\* C15: base_signal is present in a record only if that tick flipped the base
\* direction and the tick price exceeds base ema or base tema in the direction
\* of the flip; when present it equals the flip direction.
C15_BaseSignalOnlyOnConfirmedFlip ==
    (pc = "row" /\ record.base_signal # None) =>
        /\ RecordFlipped
        /\ record.base_signal = <<record.base_direction>>
        /\ record.base_direction = 1
           => RGt(record.price, record.base_ema) \/ RGt(record.price, record.base_tema)
        /\ record.base_direction = -1
           => RLt(record.price, record.base_ema) \/ RLt(record.price, record.base_tema)

\* an up flip confirmed by the price
C15_Witness ==
    /\ pc = "row"
    /\ record.base_signal = <<1>>
    /\ RecordFlipped
    /\ RGt(record.price, record.base_ema)

PositiveWindow(time_window) ==
    time_window.kind \in {"str", "timedelta"} /\ Timedelta(time_window) > 0

\* C17: construction fails, creating no calculator, whenever the type is not
\* one of SMA/EMA/DEMA/TEMA, the window is not a positive duration (a zero or
\* negative one included), or a supplied alpha is not strictly between 0 and 1.
C17_InvalidConfigRejected ==
    ( /\ config.made
      /\ \/ Upper(config.ma_type) \notin MATypes
         \/ ~PositiveWindow(config.time_window)
         \/ /\ config.alpha # None
            /\ ~(RLt(R(0), config.alpha) /\ RLt(config.alpha, R(1))) )
    => raised # "none"

\* C18: every successfully constructed calculator has alpha strictly inside
\* (0,1), supplied or derived, for every accepted window including windows of
\* one minute or less.
C18_AlphaStrictlyInside ==
    (config.made /\ raised = "none") => (RLt(R(0), ma.alpha) /\ RLt(ma.alpha, R(1)))

\* C20: a failing add_data_point or process_row call changes no field of the
\* calculator or aggregator: every call commits all of its changes or none.
C20_FailedUpdateChangesNothing ==
    [][ nfail' = nfail + 1 => (ma' = ma /\ algo' = algo) ]_vars

(***************************************************************************)
(* Properties of the listener (SpecListen)                                 *)
(***************************************************************************)

\* a stream entry was consumed and no tick reached the series: its payload was
\* malformed
MalformedEntryStep ==
    /\ listening = "stream"
    /\ nticks' = nticks + 1
    /\ ma_hist' = ma_hist

\* C21: a malformed or missing tick (no payload, no price and no usable bid and
\* ask, no timestamp or an unparseable one) makes process_price_payload return
\* None without raising, leaves the calculator unchanged, and the consuming
\* loop goes on to the next tick.
C21_MalformedTickSkipped ==
    [][ MalformedEntryStep =>
          /\ ma_ret' = None
          /\ raised' = "none"
          /\ ma' = ma
          /\ listening' = "stream" ]_vars

\* the part of C21 the code keeps: a tick without payload or without price is
\* skipped, the calculator untouched and the loop alive
C21_PricelessTickSkipped ==
    [][ (MalformedEntryStep /\ raised' = "none") =>
          /\ ma_ret' = None
          /\ ma' = ma
          /\ listening' = "stream" ]_vars

C21_Witness ==
    /\ listening = "crashed"
    /\ raised = "TypeError"
    /\ ma.data_count = Len(ma_hist) + 1

(***************************************************************************)
(* Properties of the time-decay weight (SpecMA)                            *)
(***************************************************************************)

\* an add_data_point call on a started exponential calculator with base alpha
\* inside (0, 1), a positive time after its last tick
WeightedStep ==
    /\ nticks' = nticks + 1
    /\ ma.last_timestamp # None
    /\ now' > now
    /\ RGt(ma.alpha, R(0)) /\ RLt(ma.alpha, R(1))

\* the weight the call computes
StepWeight == calculate_time_weight(ma, now', ma.last_timestamp)

\* elapsed times the weight is compared over
LaterElapsed == {30, 60, 90, 120}

\* the weight after a longer wait, where the code's power is rational
WeightAfter(elapsed) ==
    calculate_time_weight(ma, ma.last_timestamp[1] + elapsed, ma.last_timestamp)

\* the weight grows with the time elapsed
WeightMonotone ==
    \A elapsed \in LaterElapsed :
        (elapsed >= now' - now /\ WeightRepresentable(ma, ma.last_timestamp[1] + elapsed))
            => RLe(StepWeight, WeightAfter(elapsed))

Exponential == {"EMA", "DEMA", "TEMA"}

\* every tick since construction or reset carried the same price
ConstantInput ==
    /\ ma_hist # <<>>
    /\ \A i \in 1 .. Len(ma_hist) : ma_hist[i][2] = ma_hist[1][2]

DecisionFields ==
    { "base_signal_up", "base_signal_dn", "base_mamplitude_threshold",
      "base_pamplitude_threshold", "peak_signal_up", "peak_signal_dn",
      "peak_pamplitude_threshold", "peak_tamplitude_threshold", "xtpk_signal_up",
      "xtpk_signal_dn", "decision", "decision_algo", "message", "decision_up",
      "decision_dn" }

DecideStep == pc = "row" /\ pc' = "decided"

\* C25: decide is a function of the record and of the gate's latch and
\* thresholds only: a call changes nothing of the gate but the extreme latch,
\* the thresholds included; it leaves every field the aggregator produced as it
\* was and only adds the decision fields; and a gate in the same state handed
\* the same record returns the same record and ends in the same state.
C25_DecideFrame ==
    [][ DecideStep =>
          /\ decider' = [decider EXCEPT !.xtpk_found = decider'.xtpk_found]
          /\ DOMAIN record' = DOMAIN record \cup DecisionFields
          /\ DOMAIN record \cap DecisionFields = {}
          /\ \A f \in DOMAIN record : record'[f] = record[f]
          /\ \A say \in BOOLEAN :
                decide(decider, record, say) = [decider |-> decider', ret |-> record'] ]_vars

\* a decide call that set the latch and emitted a decision
C25_Witness ==
    /\ pc = "decided"
    /\ decider.xtpk_found /\ ~found_before
    /\ record.decision # None
    /\ record.xtpk_signal_up # None

(***************************************************************************)
(* Window strings and durations (SpecConfig)                               *)
(***************************************************************************)

\* the seconds a window string denotes: its count times the length of its unit
UnitLength(unit) ==
    CASE unit = "s" -> 1 [] unit = "min" -> 60 [] unit \in {"h", "H"} -> 3600

\* the duration value equivalent to a window string
EquivalentDuration(time_window) ==
    WindowArg("timedelta", time_window.count * UnitLength(time_window.unit), 0, "s")

\* ticks a minute apart
ProbeTicks == << <<0, R(1)>>, <<60, R(3)>>, <<120, R(1)>> >>

\* the values add_data_point returns for the first k of the ticks
RECURSIVE Averages(_, _, _)
Averages(m, ticks, k) ==
    IF k = 0 THEN [ma |-> m, rets |-> <<>>]
    ELSE Let1(Averages(m, ticks, k - 1), LAMBDA before :
         Let1(add_data_point(before.ma, ticks[k][1], ticks[k][2]), LAMBDA res :
              [ma |-> res.ma, rets |-> Append(before.rets, res.ret)]))

RECURSIVE LowestOf(_)
LowestOf(prices) ==
    IF Len(prices) = 1 THEN prices[1] ELSE RMin(prices[1], LowestOf(Tail(prices)))

RECURSIVE HighestOf(_)
HighestOf(prices) ==
    IF Len(prices) = 1 THEN prices[1] ELSE RMax(prices[1], HighestOf(Tail(prices)))

BaseFlipUp == algo.base_direction = -1 /\ algo'.base_direction = 1

BaseFlipDn == algo.base_direction = 1 /\ algo'.base_direction = -1

\* C27: on an upward flip base_min_price becomes the lowest tick price of the
\* DOWN run that just ended, from the tick that entered DOWN to the tick before
\* the flip, and the running minimum is reset to +infinity; on a downward flip
\* base_max_price becomes the highest tick price of the UP run that just ended
\* and the running maximum is reset to -infinity; on no other tick does either
\* latched extreme change.
C27_ExtremeLatchedOnFlip ==
    [][ RowStep =>
          /\ BaseFlipUp => /\ algo'.base_min_price = LowestOf(base_run)
                           /\ algo'.base_min_price_temp = Inf
          /\ BaseFlipDn => /\ algo'.base_max_price = HighestOf(base_run)
                           /\ algo'.base_max_price_temp = NegInf
          /\ ~BaseFlipUp => algo'.base_min_price = algo.base_min_price
          /\ ~BaseFlipDn => algo'.base_max_price = algo.base_max_price ]_vars

\* the fourth tick flipped the base direction upward after a DOWN run of two
\* ticks entered from flat, whose lower price was latched
C27_Witness ==
    /\ nticks = 4
    /\ algo.base_direction = 1
    /\ Len(base_run) = 1
    /\ algo.base_max_price = None
    /\ algo.base_min_price # None
    /\ RLt(algo.base_min_price, base_run[1])
    /\ algo.base_min_price_temp = Inf

\* the four stored amplitudes of an aggregator
StoredAmplitudes(a) ==
    <<a.base_mamplitude, a.base_pamplitude, a.peak_pamplitude, a.peak_tamplitude>>

\* C28: the stored amplitudes are running maxima: between consecutive flips
\* base_mamplitude, base_pamplitude, peak_pamplitude and peak_tamplitude never
\* decrease and are never negative; a stored amplitude decreases only in a call
\* that flips its timescale's direction.
C28_AmplitudesRunningMaxima ==
    [][ RowStep =>
          /\ \A i \in 1 .. 4 : RGe(StoredAmplitudes(algo')[i], R(0))
          /\ ~BaseFlip => /\ RGe(algo'.base_mamplitude, algo.base_mamplitude)
                          /\ RGe(algo'.base_pamplitude, algo.base_pamplitude)
          /\ ~PeakFlip => /\ RGe(algo'.peak_pamplitude, algo.peak_pamplitude)
                          /\ RGe(algo'.peak_tamplitude, algo.peak_tamplitude) ]_vars

\* a tick that flipped neither direction returned with the stored base
\* amplitudes and the peak price amplitude positive, after an earlier flip had
\* reset them
C28_Witness ==
    /\ pc = "row"
    /\ record.base_cross_price = None
    /\ record.peak_cross_price = None
    /\ algo.base_cross_price # None
    /\ algo.peak_cross_price # None
    /\ \A i \in 1 .. 3 : RGt(StoredAmplitudes(algo)[i], R(0))

(***************************************************************************)
(* Stage chaining of DEMA and TEMA (SpecMA)                                *)
(***************************************************************************)

\* an add_data_point call on a DEMA or TEMA that has seen a tick before
ChainedStep ==
    /\ nticks' = nticks + 1
    /\ Len(ma_hist') = Len(ma_hist) + 1
    /\ ma.ma_type \in {"DEMA", "TEMA"}
    /\ ma.initialized

\* weight * x + (1 - weight) * stage
Smoothed(weight, x, stage) ==
    RAdd(RMul(weight, x), RMul(RSub(R(1), weight), stage))

\* C29: on every add_data_point after the first, ema1 is updated first, ema2
\* from the just-updated ema1 and, for TEMA, ema3 from the just-updated ema2,
\* all with the one effective weight of the call; DEMA returns
\* 2 * ema1 - ema2 and TEMA 3 * ema1 - 3 * ema2 + ema3; and get_current_ma()
\* right after the call gives the value the call returned.
C29_StageChaining ==
    [][ ChainedStep =>
          Let1(<<calculate_time_weight(ma, now', ma.last_timestamp), Last(ma_hist')[2]>>,
               LAMBDA c :
                 /\ ma'.ema1 = Smoothed(c[1], c[2], ma.ema1)
                 /\ ma'.ema2 = Smoothed(c[1], ma'.ema1, ma.ema2)
                 /\ IF ma.ma_type = "TEMA"
                    THEN /\ ma'.ema3 = Smoothed(c[1], ma'.ema2, ma.ema3)
                         /\ ma_ret' = RAdd(RSub(RMul(R(3), ma'.ema1), RMul(R(3), ma'.ema2)),
                                           ma'.ema3)
                    ELSE /\ ma'.ema3 = ma.ema3
                         /\ ma_ret' = RSub(RMul(R(2), ma'.ema1), ma'.ema2)
                 /\ get_current_ma(ma') = ma_ret') ]_vars

\* a TEMA after its third tick, 30 and then 60 seconds apart at changing
\* prices: the three stages differ from each other
C29_Witness ==
    /\ ma.ma_type = "TEMA"
    /\ ma.alpha = Rat(3, 4)
    /\ Len(ma_hist) = 3
    /\ ma_hist[2][1] - ma_hist[1][1] = 30
    /\ ma_hist[3][1] - ma_hist[2][1] = 60
    /\ ma.ema1 # ma.ema2 /\ ma.ema2 # ma.ema3 /\ ma.ema1 # ma.ema3
    /\ ma_ret = get_current_ma(ma)
    /\ ma_ret # ma.ema1

(***************************************************************************)
(* The per-key scan (SpecListen)                                           *)
(***************************************************************************)

\* the scan loop ran its body for a key: no key was set by a producer
ScanStep ==
    /\ listening = "scan"
    /\ \A k \in Keys : store[k] = Unwritten => store'[k] = Unwritten

C31_FollowerDirectionExclusive ==
    /\ ~(algo.peak_follower_up # None /\ algo.peak_follower_dn # None)
    /\ algo.peak_follower_up # None => algo.peak_direction = 1
    /\ algo.peak_follower_dn # None => algo.peak_direction = -1
    /\ pc \in {"row", "decided"} =>
         ~(record.peak_follower_up # None /\ record.peak_follower_dn # None)
    /\ pc = "decided" =>
         ~(record.xtpk_signal_up # None /\ record.xtpk_signal_dn # None)

\* after a flip to DOWN a later tick set the lower follower, the upper one
\* dropped by the flip
C31_Witness ==
    /\ pc = "row"
    /\ algo.peak_direction = -1
    /\ algo.peak_cross_price # None
    /\ algo.peak_follower_dn # None
    /\ record.peak_follower_dn # None
    /\ algo.peak_follower_up = None

(***************************************************************************)
(* Amplitudes reported by a flipping call (Spec)                           *)
(***************************************************************************)

\* this tick's candidates for the base amplitudes, from the record of the call
BaseMCandidate(r) ==
    PercentOf(round(RAbs(RSub(r.base_ema, r.base_tema)), 4), r.price, 4)

BasePCandidate(r, cross_price) ==
    PercentOf(round(RAbs(RSub(r.price, cross_price)), 4), r.price, 4)

PeakPCandidate(r, cross_price) ==
    RAbs(RMul(RDiv(RSub(r.price, cross_price), cross_price), R(100)))

\* C32: the record returned by the process_row call that flips a timescale
\* reports the amplitudes accumulated over the cycle that just ended, the
\* running maxima as they stood before the reset with this tick counted in,
\* while the stored amplitudes are already 0; and the gate compares a flip's
\* signal against those reported maxima.
C32_FlipRecordReportsEndedCycle ==
    [][ /\ (RowStep /\ BaseFlip) =>
              /\ record'.base_mamplitude
                   = RMax(algo.base_mamplitude, BaseMCandidate(record'))
              /\ record'.base_pamplitude
                   = IF algo.base_cross_price # None
                     THEN RMax(algo.base_pamplitude,
                               BasePCandidate(record', algo.base_cross_price))
                     ELSE algo.base_pamplitude
              /\ algo'.base_mamplitude = R(0)
              /\ algo'.base_pamplitude = R(0)
        /\ (RowStep /\ PeakFlip) =>
              /\ record'.peak_pamplitude
                   = IF algo.peak_cross_price # None
                     THEN RMax(algo.peak_pamplitude,
                               PeakPCandidate(record', algo.peak_cross_price))
                     ELSE algo.peak_pamplitude
              /\ RGe(record'.peak_tamplitude, algo.peak_tamplitude)
              /\ algo'.peak_pamplitude = R(0)
              /\ algo'.peak_tamplitude = R(0)
        /\ (DecideStep /\ record.base_signal # None /\ base_enough(decider, record)) =>
              /\ algo.base_mamplitude = R(0)
              /\ algo.base_pamplitude = R(0)
              /\ IF record.base_signal = <<1>>
                 THEN record'.base_signal_up = record.price
                 ELSE record'.base_signal_dn = record.price ]_vars

\* a second base flip whose record carries amplitudes of the ended cycle at or
\* above both thresholds, confirmed by the gate, the stored amplitudes at 0
C32_Witness ==
    /\ pc = "decided"
    /\ record.base_signal # None
    /\ RGe(record.base_mamplitude, decider.base_mamplitude_threshold)
    /\ RGe(record.base_pamplitude, decider.base_pamplitude_threshold)
    /\ record.decision_algo # None
    /\ algo.base_mamplitude = R(0)
    /\ algo.base_pamplitude = R(0)

(***************************************************************************)
(* Effective prices of a decided record (SpecDecider)                      *)
(***************************************************************************)

\* C33: in a decided record decision_up and decision_dn are never both
\* present, and an effective price is present only in the direction of the
\* final decision: decision_up only when decision = 1, decision_dn only when
\* decision = -1, whatever the record and the latch, also when base and peak
\* signals disagree and when the extreme rule fires.
C33_EffectivePriceConsistent ==
    pc = "decided" =>
        /\ ~(record.decision_up # None /\ record.decision_dn # None)
        /\ record.decision_up # None => record.decision = <<1>>
        /\ record.decision_dn # None => record.decision = <<-1>>

\* the part of C33 that concerns one rule alone: a record with a base signal
\* and no peak activity gets an effective price in the direction of its
\* decision only
C33_BaseAloneConsistent ==
    (pc = "decided" /\ record.base_signal # None /\ record.peak_signal = None
       /\ record.xtpk_signal_up = None /\ record.xtpk_signal_dn = None) =>
        /\ ~(record.decision_up # None /\ record.decision_dn # None)
        /\ record.decision_up # None => record.decision = <<1>>
        /\ record.decision_dn # None => record.decision = <<-1>>

(***************************************************************************)
(* The first base flip of a stream (Spec)                                  *)
(***************************************************************************)

\* the tick of this step is the first one that flips the base direction: no
\* cross price was stored before it
FirstBaseFlip == BaseFlip /\ algo.base_cross_price = None

\* the record in hand reports a base flip and one of the latched extremes has
\* never been stored
FirstFlipRecord ==
    /\ record.base_cross_price # None
    /\ (algo.base_min_price = None \/ algo.base_max_price = None)

\* the latched extreme the gate would price a signal of this direction with
ExtremeToward(r) == IF r.base_direction = 1 THEN r.base_max_price ELSE r.base_min_price

====
